---- MODULE Spec2Model ----
(***************************************************************************)
(* Model of the video worker: the POST /process-video handler and the      *)
(* functions it drives (src/app.js lines 1-680, and the earlier revision   *)
(* of the same worker in src/unnamed/part_000).                            *)
(*                                                                         *)
(* JavaScript values are tagged records [k, v]; the text a completion      *)
(* service returns is a sequence of tokens, so that the brace search of    *)
(* parseJsonFromContent and JSON.parse are computed, not assumed.          *)
(***************************************************************************)
EXTENDS Integers, Sequences, FiniteSets, TLC

VARIABLES
    rev,            \* the deployed revision of the worker: "app" | "part000"
    sinkConfigured, \* EDGE_PROGRESS_URL and WORKER_TOKEN are both set
    req,            \* the request body [summaryId, videoUrl, platform]
    pc,             \* handler position [blk, ip]
    sink,           \* "idle" | "pending": a push the handler is awaiting
    running,        \* the external process the handler is awaiting, or "none"
    now,            \* Date.now(), in handler steps
    started,        \* const started = Date.now()
    events,         \* the pushes sent to the progress sink, in order
    calls,          \* the collaborator invocations, in order
    videoInfo,      \* const videoInfo
    tempDir,        \* the files in the job's temp directory
    attempts,       \* the strategy indices started by downloadAndExtractAudio
    wavPath,        \* const wavPath  (a file record)
    wavSmall,       \* const wavSmall (a file record)
    chunks,         \* const chunks: the number of part_NNN files
    inflight,       \* chunk indices whose transcribeChunk call is in flight
    settleOrder,    \* the chunk indices of the phase, in the order their calls resolved
    parts,          \* chunk index -> text of the resolved transcribeChunk calls
    earlyTranscript,
    analysis,
    fullTranscript,
    summary,
    err,            \* the exception caught by the handler's catch, or NoErr
    responses,      \* the HTTP responses sent, in order
    jobs,           \* two jobs of one worker process and the directories they share
    listing,        \* segmentAudio's chunk list, as the sort builds it
    detected        \* an application of detectPlatformFromUrl: [url, tag]

\* the state of one job
handlerVars == <<rev, sinkConfigured, req, pc, sink, running, now, started, events,
                 calls, videoInfo, tempDir, attempts, wavPath, wavSmall, chunks,
                 inflight, settleOrder, parts, earlyTranscript, analysis, fullTranscript,
                 summary,
                 err, responses>>

vars == <<handlerVars, jobs, listing, detected>>

-----------------------------------------------------------------------------
(* JavaScript values *)

NoProps == [x \in {} |-> 0]

JUndef == [k |-> "undefined", v |-> 0]
JNull == [k |-> "null", v |-> 0]
JNaN == [k |-> "nan", v |-> 0]
JBool(b) == [k |-> "bool", v |-> b]
JNum(n) == [k |-> "num", v |-> n]
\* a number with one decimal place, in tenths (a confidence such as 0.4)
JDec(t) == [k |-> "dec", v |-> t]
JStr(s) == [k |-> "str", v |-> s]
\* a string held as a sequence of characters (transcripts)
JText(t) == [k |-> "txt", v |-> t]
JObj(props) == [k |-> "obj", v |-> props]
\* an array: its elements, and the named properties assigned to it
JArr(elems) == [k |-> "arr", v |-> elems, p |-> NoProps]

EmptyObj == JObj(NoProps)

Truthy(x) ==
    CASE x.k \in {"undefined", "null", "nan"} -> FALSE
      [] x.k = "bool" -> x.v
      [] x.k \in {"num", "dec"} -> x.v # 0
      [] x.k = "str" -> x.v # ""
      [] x.k = "txt" -> Len(x.v) > 0
      [] OTHER -> TRUE

IsArray(x) == x.k = "arr"
IsString(x) == x.k \in {"str", "txt"}
TypeofObject(x) == x.k \in {"obj", "arr", "null"}
Nullish(x) == x.k \in {"undefined", "null"}

Props(x) == IF x.k = "obj" THEN x.v ELSE IF x.k = "arr" THEN x.p ELSE NoProps

\* x?.key and, for a non-nullish x, x.key
Get(x, key) == IF key \in DOMAIN Props(x) THEN Props(x)[key] ELSE JUndef

\* x.key = val in sloppy mode: ignored on a primitive
Put(x, key, val) ==
    CASE x.k = "obj" -> [x EXCEPT !.v = (key :> val) @@ x.v]
      [] x.k = "arr" -> [x EXCEPT !.p = (key :> val) @@ x.p]
      [] OTHER -> x

\* a || b
Or(a, b) == IF Truthy(a) THEN a ELSE b

\* a ?? b
Coalesce(a, b) == IF Nullish(a) THEN b ELSE a

RECURSIVE ToStr(_)
RECURSIVE JoinStr(_, _)
\* Array.prototype.join(','), as String(array) does it
JoinStr(elems, i) ==
    IF i > Len(elems) THEN ""
    ELSE (IF Nullish(elems[i]) THEN "" ELSE ToStr(elems[i]))
         \o (IF i < Len(elems) THEN "," ELSE "")
         \o JoinStr(elems, i + 1)

\* String(x), x.toString() for the values JSON.parse produces; a character
\* sequence stays one
ToStr(x) ==
    CASE x.k = "str" -> x.v
      [] x.k = "num" -> ToString(x.v)
      [] x.k = "dec" -> "0." \o ToString(x.v)
      [] x.k = "nan" -> "NaN"
      [] x.k = "bool" -> IF x.v THEN "true" ELSE "false"
      [] x.k = "null" -> "null"
      [] x.k = "undefined" -> "undefined"
      [] x.k = "obj" -> "[object Object]"
      [] x.k = "arr" -> JoinStr(x.v, 1)
      [] OTHER -> "<text>"

\* the numeric strings of the model
NumericStrings == ("" :> 0) @@ ("1" :> 1) @@ ("2" :> 2) @@ ("3" :> 3) @@ ("7" :> 7)

StrToNum(s) == IF s \in DOMAIN NumericStrings THEN JNum(NumericStrings[s]) ELSE JNaN

\* Number(x)
ToNumber(x) ==
    CASE x.k \in {"num", "dec"} -> x
      [] x.k = "nan" -> JNaN
      [] x.k = "str" -> StrToNum(x.v)
      [] x.k = "txt" -> IF Len(x.v) = 0 THEN JNum(0) ELSE JNaN
      [] x.k = "bool" -> JNum(IF x.v THEN 1 ELSE 0)
      [] x.k = "null" -> JNum(0)
      [] x.k = "arr" -> StrToNum(ToStr(x))
      [] OTHER -> JNaN

-----------------------------------------------------------------------------
(* Text as tokens, JSON.stringify and JSON.parse *)

P(s) == [k |-> "punct", v |-> s]
S(s) == [k |-> "string", v |-> s]
X(chars) == [k |-> "text", v |-> chars]
N(n) == [k |-> "number", v |-> n]
D(t) == [k |-> "decimal", v |-> t]
L(s) == [k |-> "literal", v |-> s]
\* a word of prose: no JSON token
W(s) == [k |-> "prose", v |-> s]

RECURSIVE SetToSeq(_)
SetToSeq(s) ==
    IF s = {} THEN <<>>
    ELSE LET x == CHOOSE y \in s : TRUE IN <<x>> \o SetToSeq(s \ {x})

RECURSIVE Stringify(_)
RECURSIVE StringifyElems(_, _)
RECURSIVE StringifyProps(_, _, _)

\* the elements of an array: undefined and NaN are written as null
StringifyElems(elems, i) ==
    IF i > Len(elems) THEN <<>>
    ELSE (IF elems[i].k = "undefined" THEN <<L("null")>> ELSE Stringify(elems[i]))
         \o (IF i < Len(elems) THEN <<P(",")>> ELSE <<>>)
         \o StringifyElems(elems, i + 1)

\* the own properties of an object: one whose value is undefined is left out
StringifyProps(props, keys, first) ==
    IF keys = <<>> THEN <<>>
    ELSE LET key == Head(keys) IN
         IF props[key].k = "undefined"
         THEN StringifyProps(props, Tail(keys), first)
         ELSE (IF first THEN <<>> ELSE <<P(",")>>)
              \o <<S(key), P(":")>> \o Stringify(props[key])
              \o StringifyProps(props, Tail(keys), FALSE)

\* JSON.stringify(x) for a defined x: an array is written as its elements
\* only, whatever named properties were assigned to it
Stringify(x) ==
    CASE x.k = "str" -> <<S(x.v)>>
      [] x.k = "txt" -> <<X(x.v)>>
      [] x.k = "num" -> <<N(x.v)>>
      [] x.k = "dec" -> <<D(x.v)>>
      [] x.k = "nan" -> <<L("null")>>
      [] x.k = "bool" -> <<L(IF x.v THEN "true" ELSE "false")>>
      [] x.k = "null" -> <<L("null")>>
      [] x.k = "arr" -> <<P("[")>> \o StringifyElems(x.v, 1) \o <<P("]")>>
      [] x.k = "obj" ->
            <<P("{")>> \o StringifyProps(x.v, SetToSeq(DOMAIN x.v), TRUE) \o <<P("}")>>
      [] OTHER -> <<>>

ParseFail == [ok |-> FALSE, val |-> JUndef, nxt |-> 0]

RECURSIVE ParseValue(_, _)
RECURSIVE ParseElems(_, _, _)
RECURSIVE ParseMembers(_, _, _)

\* after '[': value (',' value)* ']' , or ']' at once
ParseElems(toks, i, acc) ==
    IF i > Len(toks) THEN ParseFail
    ELSE IF acc = <<>> /\ toks[i] = P("]")
    THEN [ok |-> TRUE, val |-> JArr(<<>>), nxt |-> i + 1]
    ELSE LET r == ParseValue(toks, i) IN
         IF ~r.ok \/ r.nxt > Len(toks) THEN ParseFail
         ELSE IF toks[r.nxt] = P(",")
         THEN ParseElems(toks, r.nxt + 1, Append(acc, r.val))
         ELSE IF toks[r.nxt] = P("]")
         THEN [ok |-> TRUE, val |-> JArr(Append(acc, r.val)), nxt |-> r.nxt + 1]
         ELSE ParseFail

\* after '{': string ':' value (',' string ':' value)* '}' , or '}' at once
ParseMembers(toks, i, acc) ==
    IF i > Len(toks) THEN ParseFail
    ELSE IF DOMAIN acc = {} /\ toks[i] = P("}")
    THEN [ok |-> TRUE, val |-> JObj(acc), nxt |-> i + 1]
    ELSE IF toks[i].k # "string" \/ i + 1 > Len(toks) THEN ParseFail
    ELSE IF toks[i + 1] # P(":") THEN ParseFail
    ELSE LET r == ParseValue(toks, i + 2) IN
         IF ~r.ok \/ r.nxt > Len(toks) THEN ParseFail
         ELSE LET acc2 == (toks[i].v :> r.val) @@ acc IN
              IF toks[r.nxt] = P(",")
              THEN ParseMembers(toks, r.nxt + 1, acc2)
              ELSE IF toks[r.nxt] = P("}")
              THEN [ok |-> TRUE, val |-> JObj(acc2), nxt |-> r.nxt + 1]
              ELSE ParseFail

ParseValue(toks, i) ==
    IF i > Len(toks) THEN ParseFail
    ELSE LET tok == toks[i] IN
         CASE tok.k = "string" -> [ok |-> TRUE, val |-> JStr(tok.v), nxt |-> i + 1]
           [] tok.k = "text" -> [ok |-> TRUE, val |-> JText(tok.v), nxt |-> i + 1]
           [] tok.k = "number" -> [ok |-> TRUE, val |-> JNum(tok.v), nxt |-> i + 1]
           [] tok.k = "decimal" -> [ok |-> TRUE, val |-> JDec(tok.v), nxt |-> i + 1]
           [] tok.k = "literal" ->
                [ok |-> TRUE,
                 val |-> IF tok.v = "null" THEN JNull ELSE JBool(tok.v = "true"),
                 nxt |-> i + 1]
           [] tok = P("[") -> ParseElems(toks, i + 1, <<>>)
           [] tok = P("{") -> ParseMembers(toks, i + 1, NoProps)
           [] OTHER -> ParseFail

\* JSON.parse(toks): [ok, val]; ok = FALSE stands for the SyntaxError
JsonParse(toks) ==
    LET r == ParseValue(toks, 1) IN
    IF r.ok /\ r.nxt = Len(toks) + 1 THEN [ok |-> TRUE, val |-> r.val]
    ELSE [ok |-> FALSE, val |-> JUndef]

-----------------------------------------------------------------------------
(* Strings and character sequences *)

\* the mixed-case strings of the model and their lower-case form
LowerOf ==
    ("Recipe" :> "recipe") @@ ("TUTORIAL" :> "tutorial")
    @@ ("Instagram.COM" :> "instagram.com") @@ ("FB.Watch" :> "fb.watch")
    @@ ("TikTok.com" :> "tiktok.com")

\* String.prototype.toLowerCase
StrLower(s) == IF s \in DOMAIN LowerOf THEN LowerOf[s] ELSE s

\* the proper substrings that matter, among the strings of the model
ProperSubstrings ==
    { <<"recipe|tutorial|story", "recipe">>, <<"recipe|tutorial|story", "tutorial">>,
      <<"video tutorial", "tutorial">>, <<"recipe tutorial", "recipe">>,
      <<"recipe tutorial", "tutorial">> }

\* String.prototype.includes
StrIncludes(s, pat) == s = pat \/ <<s, pat>> \in ProperSubstrings

IsSpace(c) == c = " "

RECURSIVE TrimStart(_)
TrimStart(t) == IF t # <<>> /\ IsSpace(Head(t)) THEN TrimStart(Tail(t)) ELSE t

RECURSIVE TrimEnd(_)
TrimEnd(t) ==
    IF t # <<>> /\ IsSpace(t[Len(t)]) THEN TrimEnd(SubSeq(t, 1, Len(t) - 1)) ELSE t

\* String.prototype.trim
Trim(t) == TrimEnd(TrimStart(t))

RECURSIVE JoinSpace(_)
\* Array.prototype.join(' ') of an array of character sequences
JoinSpace(ts) ==
    IF ts = <<>> THEN <<>>
    ELSE IF Len(ts) = 1 THEN ts[1]
    ELSE ts[1] \o <<" ">> \o JoinSpace(Tail(ts))

\* t.trim().split(/\s+/).length: the empty string splits into one empty token
WordCount_KeepsEmpty(t) ==
    IF t = <<>> THEN 1
    ELSE Cardinality({i \in 1..Len(t) : ~IsSpace(t[i]) /\ (i = 1 \/ IsSpace(t[i - 1]))})

\* t.trim().split(/\s+/).filter(Boolean).length: the starts of the runs of
\* non-space characters
WordCount(t) ==
    Cardinality({i \in 1..Len(t) : ~IsSpace(t[i]) /\ (i = 1 \/ IsSpace(t[i - 1]))})

\* the prefix of the early transcript the classifier is given (line 448;
\* part_000 line 173) and the prefix of the transcript the synthesizers are
\* given (lines 240, 315)
SnippetCharsApp == 1400
SnippetChars0 == 1200
SnippetChars(r) == IF r = "app" THEN SnippetCharsApp ELSE SnippetChars0
PromptChars == 8000

\* firstChars(t, n)
firstChars(t, n) == SubSeq(t, 1, IF Len(t) < n THEN Len(t) ELSE n)

\* String.prototype.indexOf / lastIndexOf of one unit, 1-based; 0 when absent
IndexOf(t, u) ==
    IF \E i \in 1..Len(t) : t[i] = u
    THEN CHOOSE i \in 1..Len(t) : t[i] = u /\ \A j \in 1..(i - 1) : t[j] # u
    ELSE 0

LastIndexOf(t, u) ==
    IF \E i \in 1..Len(t) : t[i] = u
    THEN CHOOSE i \in 1..Len(t) : t[i] = u /\ \A j \in (i + 1)..Len(t) : t[j] # u
    ELSE 0

-----------------------------------------------------------------------------
(* Exceptions: a call returns [thrown, val, msg] *)

Return(x) == [thrown |-> FALSE, val |-> x, msg |-> ""]
Throw(m) == [thrown |-> TRUE, val |-> JUndef, msg |-> m]

NoErr == [msg |-> "", processingTime |-> 0]

-----------------------------------------------------------------------------
(* detectPlatformFromUrl *)

\* u.includes(pat) on the URL as given, without toLowerCase
UrlIncludes_CaseSensitive(u, pat) == \E i \in 1..Len(u) : u[i] = pat

\* a URL is a sequence of pieces; a host pattern is one piece
UrlIncludes(u, pat) == \E i \in 1..Len(u) : StrLower(u[i]) = pat

detectPlatformFromUrl(url) ==
    LET u == IF Truthy(url) THEN url.v ELSE <<>> IN
    IF UrlIncludes(u, "instagram.com") THEN "instagram"
    ELSE IF UrlIncludes(u, "tiktok.com") THEN "tiktok"
    ELSE IF UrlIncludes(u, "facebook.com") \/ UrlIncludes(u, "fb.watch")
            \/ UrlIncludes(u, "fb.com") THEN "facebook"
    ELSE IF UrlIncludes(u, "youtube.com") \/ UrlIncludes(u, "youtu.be") THEN "youtube"
    ELSE "unknown"

-----------------------------------------------------------------------------
(* callOpenAIChat and parseJsonFromContent *)

\* what the completion service did with one request
NetErr == [kind |-> "neterr", ok |-> FALSE, body |-> <<>>]
Http(ok, body) == [kind |-> "http", ok |-> ok, body |-> body]

\* the body of a well-formed completion whose message content is `content`
ChatBody(content) ==
    Stringify(JObj([choices |-> JArr(<<JObj([message |-> JObj([content |-> content])])>>)]))

\* json?.choices?.[0]?.message?.content
ChoiceContent(json) ==
    LET cs == Get(json, "choices") IN
    IF cs.k = "arr" /\ Len(cs.v) > 0
    THEN Get(Get(cs.v[1], "message"), "content")
    ELSE JUndef

callOpenAIChat(outcome) ==
    IF outcome.kind = "neterr" THEN Throw("fetch failed")
    ELSE IF ~outcome.ok THEN Throw("OpenAI 500")
    ELSE LET json == JsonParse(outcome.body) IN
         IF ~json.ok THEN Throw("OpenAI JSON parse failed")
         ELSE Return(Coalesce(ChoiceContent(json.val), JText(<<>>)))

\* first >= 0 && last > first ? content.slice(first, last + 1) : content,
\* with the positions counted from 1 and 0 for "not found"
BraceSlice(content, first, last) ==
    IF first >= 1 /\ last > first THEN SubSeq(content, first, last) ELSE content

\* the try/catch around JSON.parse and Object.keys(parsed): the fallback when
\* the payload is no JSON or is null (Object.keys(null) throws)
ParsedOr(parsed, fallback) ==
    IF ~parsed.ok \/ Nullish(parsed.val) THEN fallback ELSE parsed.val

parseJsonFromContent(content, fallback) ==
    ParsedOr(JsonParse(BraceSlice(content, IndexOf(content, P("{")),
                                  LastIndexOf(content, P("}")))),
             fallback)

\* content.indexOf is not a function when the content is no string
ParseContent(content, fallback) ==
    IF content.k = "txt" THEN Return(parseJsonFromContent(content.v, fallback))
    ELSE Throw("content.indexOf is not a function")

\* parseJsonFromContent(content, fallback) of the completion r
ThenParse(r, fallback) == IF r.thrown THEN r ELSE ParseContent(r.val, fallback)

\* const { content } = await callOpenAIChat(...); parseJsonFromContent(content, fallback)
CompletionJson(outcome, fallback) == ThenParse(callOpenAIChat(outcome), fallback)

-----------------------------------------------------------------------------
(* The synthesizers of src/app.js *)

ArrayOr(x, dflt) == IF IsArray(x) THEN x ELSE dflt
EmptyArr == JArr(<<>>)

\* typeof x === 'string' ? x : ''
StringOr(x, dflt) == IF IsString(x) THEN x ELSE dflt

\* o.key = o.key || dflt
PutOr(o, key, dflt) == Put(o, key, Or(Get(o, key), dflt))

\* a repair that wraps what it finds in a new array
PutArray_Wraps(o, key) == Put(o, key, JArr(<<Get(o, key)>>))

\* o.key = Array.isArray(o.key) ? o.key : []
PutArray(o, key) == Put(o, key, ArrayOr(Get(o, key), EmptyArr))

\* o.key = Array.isArray(o.key) ? o.key : (Array.isArray(o.alt) ? o.alt : [])
PutArrayAlt(o, key, alt) ==
    Put(o, key, ArrayOr(Get(o, key), ArrayOr(Get(o, alt), EmptyArr)))

\* o.key = typeof o.key === 'string' ? o.key : ''
PutString(o, key) == Put(o, key, StringOr(Get(o, key), JStr("")))

\* (videoInfo.title||'').replace(/"/g, ...) while a prompt is built: a
\* TypeError when the title is truthy and no string
PromptTitle(info) ==
    IF IsString(Or(Get(info, "title"), JStr(""))) THEN Return(JUndef)
    ELSE Throw("replace is not a function")

\* one entry of obj.steps.map((s, i) => ({step, instruction})); i is 0-based
\* in the code and 1-based here, so i stands for i + 1
MapStep(s, i, altKey) ==
    JObj([step |-> ToNumber(Coalesce(Get(s, "step"), JNum(i))),
          instruction |->
              JStr(ToStr(Or(Or(Get(s, "instruction"), Get(s, altKey)),
                            JStr(ToStr(Or(s, JStr("")))))))])

\* a list left as the filter left it
StepsOrPlaceholder_AsFiltered(kept) == JArr(kept)

\* if (!obj.steps.length) obj.steps = [{ step: 1, instruction: ... }]
StepsOrPlaceholder(kept) ==
    IF kept = <<>>
    THEN JArr(<<JObj([step |-> JNum(1),
                      instruction |-> JStr("No clear steps detected.")])>>)
    ELSE JArr(kept)

\* src.map(...).filter(s => s.instruction)
MapSteps(src, altKey) ==
    SelectSeq([i \in 1..Len(src) |-> MapStep(src[i], i, altKey)],
              LAMBDA s : Truthy(Get(s, "instruction")))

\* (Array.isArray(obj.steps) ? obj.steps : []).map(...).filter(...) and the
\* placeholder when nothing is left
NormalizeSteps(steps, altKey) ==
    StepsOrPlaceholder(MapSteps(ArrayOr(steps, EmptyArr).v, altKey))

PutSteps(o, altKey) == Put(o, "steps", NormalizeSteps(Get(o, "steps"), altKey))

\* if (!obj || typeof obj !== 'object') obj = {}
ObjectOr(parsed) ==
    IF ~Truthy(parsed) \/ ~TypeofObject(parsed) THEN EmptyObj ELSE parsed

FailedStep ==
    JObj([step |-> JNum(1),
          instruction |-> JStr("Summary generation failed. Please try again.")])

\* the catch of synthesizeRecipe
RecipeErrorDoc(info, msg) ==
    JObj([type |-> JStr("recipe"), category |-> JStr("recipe"),
          title |-> Or(Get(info, "title"), JStr("Recipe")),
          intro |-> JStr("Recipe generation failed due to AI processing error."),
          ingredients |-> EmptyArr,
          steps |-> JArr(<<FailedStep>>),
          notes |-> JArr(<<JStr("Error: " \o msg)>>)])

\* the normalization of synthesizeRecipe, lines 254-279
NormalizeRecipe(parsed, info) ==
    PutArray(
      PutSteps(
        PutArray(
          PutOr(
            PutOr(Put(Put(ObjectOr(parsed), "type", JStr("recipe")),
                      "category", JStr("recipe")),
                  "title", Or(Get(info, "title"), JStr("Recipe"))),
            "intro", JStr("")),
          "ingredients"),
        "action"),
      "notes")

\* the try block of synthesizeRecipe once the completion c is there
RecipeOf(c, info) ==
    IF c.thrown THEN Return(RecipeErrorDoc(info, c.msg))
    ELSE Return(NormalizeRecipe(c.val, info))

synthesizeRecipe(transcript, info, outcome) ==
    IF PromptTitle(info).thrown THEN PromptTitle(info)
    ELSE RecipeOf(CompletionJson(outcome, JNull), info)

\* the catch of synthesizeTutorial
TutorialErrorDoc(info, msg) ==
    JObj([type |-> JStr("tutorial"), category |-> JStr("tutorial"),
          title |-> Or(Get(info, "title"), JStr("Tutorial")),
          intro |-> JStr("Tutorial generation failed due to AI processing error."),
          materials |-> EmptyArr,
          steps |-> JArr(<<FailedStep>>),
          tips |-> EmptyArr,
          warnings |-> JArr(<<JStr("Error: " \o msg)>>)])

\* the normalization of synthesizeTutorial, lines 329-355
NormalizeTutorial(parsed, info) ==
    PutArray(
      PutArray(
        PutSteps(
          PutArrayAlt(
            PutOr(
              PutOr(Put(Put(ObjectOr(parsed), "type", JStr("tutorial")),
                        "category", JStr("tutorial")),
                    "title", Or(Get(info, "title"), JStr("Tutorial"))),
              "intro", JStr("")),
            "materials", "materialsNeeded"),
          "title"),
        "tips"),
      "warnings")

\* the try block of synthesizeTutorial once the completion c is there
TutorialOf(c, info) ==
    IF c.thrown THEN Return(TutorialErrorDoc(info, c.msg))
    ELSE Return(NormalizeTutorial(c.val, info))

synthesizeTutorial(transcript, info, outcome) ==
    IF PromptTitle(info).thrown THEN PromptTitle(info)
    ELSE TutorialOf(CompletionJson(outcome, JNull), info)

\* formatTranscript makes no call for an empty transcript
FormatCalls(verbatim) == Len(verbatim) > 0

\* a readable text taken from the completion alone
ReadableOf_NoFallback(c, v) ==
    IF c.thrown THEN JObj([verbatim |-> v, readable |-> JStr("")])
    ELSE JObj([verbatim |-> v, readable |-> Or(Get(c.val, "readable"), JStr(""))])

\* { verbatim, readable: obj.readable || verbatim }, or the catch
ReadableOf(c, v) ==
    IF c.thrown THEN JObj([verbatim |-> v, readable |-> v])
    ELSE JObj([verbatim |-> v, readable |-> Or(Get(c.val, "readable"), v)])

formatTranscript(verbatim, outcome) ==
    IF ~FormatCalls(verbatim)
    THEN JObj([verbatim |-> JStr(""), readable |-> JStr("")])
    ELSE ReadableOf(CompletionJson(outcome, JObj([readable |-> JText(verbatim)])),
                    JText(verbatim))

\* (analysis?.contentType || dflt).toLowerCase(), a TypeError on a non-string
LabelOf(x) ==
    IF x.k = "str" THEN Return(JStr(StrLower(x.v)))
    ELSE Throw("toLowerCase is not a function")

\* raw.includes('recipe') ? 'recipe' : raw.includes('tutorial') ? 'tutorial' : dflt
NormType(raw, dflt) ==
    IF StrIncludes(raw, "recipe") THEN "recipe"
    ELSE IF StrIncludes(raw, "tutorial") THEN "tutorial"
    ELSE dflt

TypeOfLabel(raw, dflt) ==
    IF raw.thrown THEN raw ELSE Return(JStr(NormType(raw.val.v, dflt)))

\* lines 474-477: recipe | tutorial | story
SummaryType(an) ==
    TypeOfLabel(LabelOf(Or(Get(an, "contentType"), JStr("story"))), "story")

CallsFor(t, transcription) ==
    ~t.thrown /\ (t.val.v = "story" => FormatCalls(transcription))

\* whether generateSpecializedSummary of src/app.js calls the completion service
SummaryCalls(transcription, an) == CallsFor(SummaryType(an), transcription)

\* type === 'tutorial' ? 'tutorial' : type === 'recipe' ? 'recipe' : 'general'
CategoryOf(type) ==
    IF type = "tutorial" THEN "tutorial" ELSE IF type = "recipe" THEN "recipe" ELSE "general"

\* the catch of generateSpecializedSummary, lines 497-513
FallbackDoc(type, info, msg) ==
    JObj([type |-> JStr(type),
          category |-> JStr(CategoryOf(type)),
          title |-> Or(Get(info, "title"), JStr("Summary")),
          intro |-> JStr("Processing failed due to: " \o msg),
          steps |-> JArr(<<JObj([step |-> JNum(1),
                                 instruction |-> JStr("AI summary generation failed. Error: "
                                                      \o msg)])>>),
          materials |-> EmptyArr,
          tips |-> JArr(<<JStr("Try processing this video again later.")>>),
          warnings |-> JArr(<<JStr("This is a fallback result due to processing errors.")>>)])

\* the three branches of the try block, lines 482-494
SummaryBranch(type, transcription, info, outcome) ==
    IF type = "story"
    THEN Return(JObj([type |-> JStr("story"), category |-> JStr("general"),
                      title |-> Or(Get(info, "title"), JStr("Story")),
                      transcript |-> formatTranscript(transcription, outcome)]))
    ELSE IF type = "recipe" THEN synthesizeRecipe(transcription, info, outcome)
    ELSE synthesizeTutorial(transcription, info, outcome)

\* the try/catch of lines 481-513 around the branch's result r
SummaryGuarded(r, type, info) ==
    IF r.thrown THEN Return(FallbackDoc(type, info, r.msg)) ELSE r

\* the type t is computed before the try block
SummaryOfType(t, transcription, info, outcome) ==
    IF t.thrown THEN t
    ELSE SummaryGuarded(SummaryBranch(t.val.v, transcription, info, outcome), t.val.v, info)

generateSpecializedSummary(transcription, info, an, outcome) ==
    SummaryOfType(SummaryType(an), transcription, info, outcome)

\* the try block of analyzeContentType once the completion c is there
ClassifiedOf(c) ==
    IF c.thrown
    THEN Return(JObj([contentType |-> JStr("story"), confidence |-> JDec(0),
                      reason |-> JStr("error-fallback")]))
    ELSE IF ~Truthy(Get(c.val, "contentType"))
    THEN Return(Put(c.val, "contentType", JStr("story")))
    ELSE Return(c.val)

\* analyzeContentType of src/app.js: the prompt is built before the try block
analyzeContentType(info, outcome) ==
    IF PromptTitle(info).thrown THEN PromptTitle(info)
    ELSE ClassifiedOf(CompletionJson(outcome,
                                     JObj([contentType |-> JStr("story"),
                                           confidence |-> JDec(4),
                                           reason |-> JStr("fallback")])))

\* s.type = s.type || normType; s.category = s.category || normType
TagWith(s, raw) ==
    IF raw.thrown THEN raw
    ELSE Return(PutOr(PutOr(s, "type", JStr(NormType(raw.val.v, "general"))),
                      "category", JStr(NormType(raw.val.v, "general"))))

\* (analysis?.contentType || s.type || s.category || 'general').toLowerCase()
RawType(s, an) ==
    LabelOf(Or(Or(Or(Get(an, "contentType"), Get(s, "type")), Get(s, "category")),
               JStr("general")))

TagObject(s, an) == TagWith(s, RawType(s, an))

\* lines 519-526 of normalizeForUI: s = summary || {} with type and category
NormalizeTags(doc, an) == TagObject(Or(doc, EmptyObj), an)

\* lines 529-535
TutorialFields(s) ==
    IF Get(s, "type") = JStr("tutorial")
    THEN PutArray(
           PutArray(
             PutArray(PutArrayAlt(PutString(s, "intro"), "materials", "materialsNeeded"),
                      "steps"),
             "tips"),
           "warnings")
    ELSE s

\* lines 537-542
RecipeFields(s) ==
    IF Get(s, "type") = JStr("recipe")
    THEN PutArray(PutArray(PutArray(PutString(s, "intro"), "ingredients"), "steps"),
                  "notes")
    ELSE s

\* lines 545-550
TranscriptOr(t) ==
    IF ~Truthy(t) \/ ~TypeofObject(t)
    THEN JObj([verbatim |-> JStr(""), readable |-> JStr("")])
    ELSE PutOr(PutOr(t, "verbatim", JStr("")), "readable", JStr(""))

\* lines 544-553, the same in both revisions
NormalizeStory(s) ==
    PutArray(PutArray(Put(s, "transcript", TranscriptOr(Get(s, "transcript"))),
                      "keyTakeaways"),
             "quotes")

StoryFields(s) ==
    IF Get(s, "type") = JStr("story") \/ Get(s, "category") = JStr("general")
    THEN NormalizeStory(s) ELSE s

FieldsForUI(tagged) ==
    IF tagged.thrown THEN tagged
    ELSE Return(StoryFields(RecipeFields(TutorialFields(tagged.val))))

\* normalizeForUI of src/app.js
normalizeForUI(doc, an) == FieldsForUI(NormalizeTags(doc, an))

-----------------------------------------------------------------------------
(* The same functions in the revision of src/unnamed/part_000 *)

\* x[key] of a value that must not be null or undefined
Member(r, key) ==
    IF r.thrown THEN r
    ELSE IF Nullish(r.val) THEN Throw("Cannot read properties of undefined")
    ELSE Return(Get(r.val, key))

\* x[0]
FirstOf(r) ==
    IF r.thrown THEN r
    ELSE IF Nullish(r.val) THEN Throw("Cannot read properties of undefined")
    ELSE IF r.val.k = "arr" /\ Len(r.val.v) > 0 THEN Return(r.val.v[1])
    ELSE Return(JUndef)

\* data.choices[0].message.content: a TypeError unless every link is there
ChoiceContentStrict(json) ==
    Member(Member(FirstOf(Member(Return(json), "choices")), "message"), "content")

\* JSON.parse(x) of a value that need not be a string: String(x) is parsed
ParseAny(x) ==
    CASE x.k = "txt" -> JsonParse(x.v)
      [] x.k \in {"num", "dec", "bool", "null"} -> [ok |-> TRUE, val |-> x]
      [] OTHER -> [ok |-> FALSE, val |-> JUndef]

\* try { return JSON.parse(data.choices[0].message.content) } catch { ... }
ParsedOrStory(parsed) ==
    IF parsed.ok THEN Return(parsed.val) ELSE Return(JObj([contentType |-> JStr("story")]))

ContentOrStory(c) ==
    IF c.thrown THEN Return(JObj([contentType |-> JStr("story")]))
    ELSE ParsedOrStory(ParseAny(c.val))

\* await response.json(), then the try block
ClassifiedOf_0(data) ==
    IF ~data.ok THEN Throw("invalid json response body")
    ELSE ContentOrStory(ChoiceContentStrict(data.val))

\* analyzeContentType of part_000: no status check, and only the parse of
\* the message content is inside the try block
analyzeContentType_0(info, outcome) ==
    IF PromptTitle(info).thrown THEN PromptTitle(info)
    ELSE IF outcome.kind = "neterr" THEN Throw("fetch failed")
    ELSE ClassifiedOf_0(JsonParse(outcome.body))

\* try { return JSON.parse(txt.slice(...)) } catch { return {type, title, ...} }
ParsedOrStub(parsed, type, info) ==
    IF parsed.ok THEN Return(parsed.val)
    ELSE Return(JObj([type |-> JStr(type),
                      title |-> Or(Get(info, "title"), JStr("Summary")),
                      summary |-> JStr("Parsing failed"),
                      category |-> JStr(CategoryOf(type))]))

\* txt = data?.choices?.[0]?.message?.content || '' and its brace slice
SummaryOfText(txt, type, info) ==
    IF txt.k # "txt" THEN Throw("txt.indexOf is not a function")
    ELSE ParsedOrStub(JsonParse(BraceSlice(txt.v, IndexOf(txt.v, P("{")),
                                           LastIndexOf(txt.v, P("}")))),
                      type, info)

SummaryOfData(data, type, info) ==
    IF ~data.ok THEN Throw("invalid json response body")
    ELSE SummaryOfText(Or(ChoiceContent(data.val), JText(<<>>)), type, info)

SummaryOfType_0(t, info, outcome) ==
    IF t.thrown THEN t
    ELSE IF PromptTitle(info).thrown THEN PromptTitle(info)
    ELSE IF outcome.kind = "neterr" THEN Throw("fetch failed")
    ELSE SummaryOfData(JsonParse(outcome.body), t.val.v, info)

\* generateSpecializedSummary of part_000: one completion for every type,
\* nothing but the final JSON.parse inside a try block
generateSpecializedSummary_0(transcription, info, an, outcome) ==
    SummaryOfType_0(SummaryType(an), info, outcome)

TutorialFields_0(s) ==
    IF Get(s, "type") = JStr("tutorial")
    THEN PutArray(
           PutArray(
             PutArray(PutArray(PutArray(s, "materialsNeeded"), "steps"),
                      "troubleshooting"),
             "nextSteps"),
           "resources")
    ELSE s

RecipeFields_0(s) ==
    IF Get(s, "type") = JStr("recipe")
    THEN PutArray(PutArray(PutArray(PutArray(s, "equipment"), "ingredients"),
                           "instructions"),
                  "tips")
    ELSE s

FieldsForUI_0(tagged) ==
    IF tagged.thrown THEN tagged
    ELSE Return(StoryFields(RecipeFields_0(TutorialFields_0(tagged.val))))

\* normalizeForUI of part_000
normalizeForUI_0(doc, an) == FieldsForUI_0(NormalizeTags(doc, an))

-----------------------------------------------------------------------------
(* The collaborators' profiles and the media helpers *)

\* the yt-dlp command of extractVideoInfo, by what distinguishes it
InfoProfile(platform) ==
    CASE platform = "instagram" -> [ua |-> "iPhone", extractorArgs |-> "none"]
      [] platform = "tiktok" -> [ua |-> "Android", extractorArgs |-> "none"]
      [] platform = "facebook" -> [ua |-> "Chrome91", extractorArgs |-> "none"]
      [] OTHER -> [ua |-> "Windows", extractorArgs |-> "youtube:player_client=android,web"]

Strategy(format, ua, args) == [format |-> format, ua |-> ua, extractorArgs |-> args]
Generic == Strategy("any", "none", "none")

\* the strategies table of downloadAndExtractAudio
Strategies(platform) ==
    CASE platform = "instagram" ->
            <<Strategy("best[ext=mp4]", "Instagram Android", "none"),
              Strategy("best", "iPhone", "none"), Generic>>
      [] platform = "tiktok" -> <<Strategy("best", "Android", "none"), Generic>>
      [] platform = "facebook" -> <<Strategy("best[height<=720]", "Windows", "none"), Generic>>
      [] platform = "youtube" ->
            <<Strategy("bestaudio/best", "Windows", "youtube:player_client=android"), Generic>>
      [] OTHER -> <<Generic>>

\* a callback that resolves with whatever the tool printed
VideoInfoOf_Raw(platform, out) == JsonParse(out.stdout).val

\* the callback of extractVideoInfo: out = [error, stdout]
VideoInfoOf(platform, out) ==
    LET placeholder == JObj([title |-> JStr(platform \o " video"),
                             duration |-> JNull, thumbnail |-> JNull])
        info == JsonParse(out.stdout)
    IN  IF out.error \/ ~info.ok \/ Nullish(info.val) THEN placeholder
        ELSE JObj([title |-> Or(Get(info.val, "title"), JStr("Untitled Video")),
                   duration |-> Or(Get(info.val, "duration"), JNull),
                   thumbnail |-> Or(Get(info.val, "thumbnail"), JNull)])

\* the file names yt-dlp and ffmpeg leave in the temp directory, in the
\* order readdirSync lists them (by name)
NameRank ==
    ("audio.m4a.part" :> 1) @@ ("audio.wav" :> 2) @@ ("audio.webm" :> 3)
    @@ ("audio_compressed.wav" :> 4)

\* fs.readdirSync(tempDir).filter(f => f.startsWith('audio')): every name of
\* the model starts with 'audio'
AudioFiles(dir) == DOMAIN dir

\* files[0]
FirstFile(dir) ==
    CHOOSE f \in AudioFiles(dir) : \A g \in AudioFiles(dir) : NameRank[f] <= NameRank[g]

\* the files after a process wrote `file` (or nothing)
WriteFile(dir, file, size, by) ==
    IF file = "none" THEN dir
    ELSE (file :> [size |-> size, by |-> by]) @@ dir

\* a win decided by the directory alone, whatever the exit
StrategyWins_IgnoresExit(out, dir) == AudioFiles(dir) # {}

\* a win that asks for more than a few KiB of output
StrategyWins_MinSize(out, dir) ==
    /\ out.exit = "ok"
    /\ AudioFiles(dir) # {}
    /\ dir[FirstFile(dir)].size > 5

\* line 176: the strategy that just exited wins
StrategyWins(out, dir) == out.exit = "ok" /\ AudioFiles(dir) # {}

\* mb <= 24, with sizes in KiB
FitsWhisper(sizeKiB) == sizeKiB <= 24 * 1024

\* wavPath.replace(/\.wav$/i, '_compressed.wav')
CompressedName(name) == IF name = "audio.wav" THEN "audio_compressed.wav" ELSE name

\* transcribeChunk: out is the speech-to-text service's answer
transcribeChunk(out) ==
    LET json == JsonParse(out.body) IN
    IF out.kind = "neterr" THEN Throw("fetch failed")
    ELSE IF ~out.ok THEN Throw("Whisper error 500")
    ELSE IF ~json.ok THEN Throw("invalid json response body")
    ELSE Return(Or(Get(json.val, "text"), JText(<<>>)))

\* an early phase of the first chunk only
EarlyN_One(n) == IF n < 1 THEN n ELSE 1

\* Math.min(2, chunks.length); chunks.slice(0, earlyN) and
\* chunks.slice(earlyN) as index sets (0-based)
EarlyN(n) == IF n < 2 THEN n ELSE 2
EarlyIdx(n) == 0..(EarlyN(n) - 1)
RestIdx(n) == EarlyN(n)..(n - 1)

\* the texts of the chunks lo..hi in the order their calls resolved: those
\* resolved before, then the one resolving now
PartsSeq_AsSettled(ps, lo, hi) ==
    LET InPhase(x) == x \in lo..hi
        before == SelectSeq(settleOrder, InPhase)
        last == (lo..hi) \ {before[k] : k \in 1..Len(before)}
    IN  [k \in 1..Len(before) |-> ps[before[k]]]
        \o (IF last = {} THEN <<>> ELSE <<ps[CHOOSE x \in last : TRUE]>>)

\* the texts of the chunks lo..hi in index order, as Promise.all returns them
RECURSIVE PartsSeq(_, _, _)
PartsSeq(ps, lo, hi) ==
    IF lo > hi THEN <<>> ELSE <<ps[lo]>> \o PartsSeq(ps, lo + 1, hi)

\* earlyParts.join(' ').trim()
EarlyTranscriptOf(ps, n) == Trim(JoinSpace(PartsSeq(ps, 0, EarlyN(n) - 1)))

\* a full transcript made of the remaining chunks alone
FullTranscriptOf_RestOnly(early, ps, n) ==
    Trim(JoinSpace(PartsSeq(ps, EarlyN(n), n - 1)))

\* (earlyTranscript + ' ' + restParts.join(' ')).trim()
FullTranscriptOf(early, ps, n) ==
    Trim(early \o <<" ">> \o JoinSpace(PartsSeq(ps, EarlyN(n), n - 1)))

-----------------------------------------------------------------------------
(* The handler of POST /process-video as a list of statements *)

PP(stage, percent, partial, reads) ==
    [op |-> "postProgress", stage |-> stage, percent |-> percent,
     partial |-> partial, reads |-> reads]
Op(name) == [op |-> name, stage |-> "", percent |-> 0, partial |-> "none", reads |-> FALSE]

\* the try block: src/app.js lines 570-631
TryBodyApp ==
    << PP("fetching_audio", 5, "none", FALSE), Op("extractVideoInfo"),
       PP("downloading", 10, "none", FALSE), Op("downloadAndExtractAudio"),
       PP("transcoding", 15, "none", FALSE), Op("compressIfNeeded"),
       PP("chunking", 20, "none", FALSE), Op("segmentAudio"),
       PP("transcribing", 30, "none", FALSE), Op("transcribeEarly"),
       PP("transcribing", 40, "early", FALSE),
       PP("classifying", 45, "none", FALSE), Op("analyzeContentType"),
       PP("classifying", 50, "none", TRUE),
       PP("transcribing", 55, "none", FALSE), Op("transcribeRest"),
       PP("transcribed", 70, "full", FALSE),
       PP("structuring", 80, "none", TRUE), Op("generateSpecializedSummary"),
       PP("normalizing", 90, "none", FALSE), Op("normalizeForUI"),
       PP("finalizing", 95, "none", FALSE), Op("respond200") >>

\* the try block: src/unnamed/part_000 lines 277-317
TryBody0 ==
    << PP("fetching_audio", 5, "none", FALSE), Op("extractVideoInfo"),
       Op("downloadAndExtractAudio"),
       PP("transcoding", 15, "none", FALSE), Op("compressIfNeeded"),
       PP("chunking", 20, "none", FALSE), Op("segmentAudio"),
       PP("transcribing", 30, "none", FALSE), Op("transcribeEarly"),
       PP("transcribing", 40, "early", FALSE),
       PP("classifying", 45, "none", FALSE), Op("analyzeContentType"),
       PP("classifying", 50, "none", TRUE),
       Op("transcribeRest"),
       PP("transcribed", 60, "full", FALSE),
       PP("structuring", 85, "none", FALSE), Op("generateSpecializedSummary"),
       Op("normalizeForUI"),
       PP("finalizing", 95, "none", FALSE), Op("respond200") >>

\* a catch block that reports the failure and sends nothing
CatchBodyApp_NoResponse == << PP("failed", 0, "error", FALSE) >>

\* the catch block: src/app.js lines 633-651
CatchBodyApp == << PP("failed", 0, "error", FALSE), Op("respond500") >>

\* the catch block: src/unnamed/part_000 lines 318-321
CatchBody0 == << Op("respond500") >>

Body(r, blk) ==
    IF blk = "try" THEN (IF r = "app" THEN TryBodyApp ELSE TryBody0)
    ELSE IF blk = "catch" THEN (IF r = "app" THEN CatchBodyApp ELSE CatchBody0)
    ELSE <<>>

Stmt == IF pc.ip \in 1..Len(Body(rev, pc.blk)) THEN Body(rev, pc.blk)[pc.ip] ELSE Op("none")

At(name) == Stmt.op = name

-----------------------------------------------------------------------------
(* postProgress *)

\* postProgress without its try/catch
postProgress_NoCatch(o) ==
    IF o = "neterr" THEN Throw("fetch failed") ELSE Return(JUndef)

\* lines 30-39: what the call does once the sink answered `o`; a fetch that
\* fails rejects inside the try block and is caught and logged
postProgress(o) ==
    LET fetched == IF o = "neterr" THEN Throw("fetch failed") ELSE Return(JUndef) IN
    IF fetched.thrown THEN Return(JUndef) ELSE Return(JUndef)

\* a push whenever there is a summaryId, configured or not
PushesProgress_IgnoresConfig == Truthy(req.summaryId)

\* line 29: no push without sink URL, token and summaryId
PushesProgress == sinkConfigured /\ Truthy(req.summaryId)

\* a push that counts the percent down
ProgressEvent_CountingDown ==
    [stage |-> Stmt.stage, percent |-> 100 - Stmt.percent, partial |-> JUndef]

\* the body of the push for the statement at pc
ProgressEvent ==
    [stage |-> Stmt.stage, percent |-> Stmt.percent,
     partial |->
        CASE Stmt.partial = "early" -> JObj([transcript |-> JText(earlyTranscript)])
          [] Stmt.partial = "full" -> JObj([transcript |-> JText(fullTranscript)])
          [] Stmt.partial = "error" ->
                JObj([error |-> JStr(err.msg),
                      processingTimeMs |-> JNum(err.processingTime),
                      stage |-> JStr("error")])
          [] OTHER -> JUndef]

-----------------------------------------------------------------------------
(* Handler steps *)

Done == [blk |-> "done", ip |-> 0]

Advance ==
    pc' = IF pc.ip < Len(Body(rev, pc.blk)) THEN [pc EXCEPT !.ip = @ + 1] ELSE Done

Tick == now' = now + 1

\* an exception reaches the handler: the catch block when thrown inside the
\* try block; thrown inside the catch block it rejects the handler's promise
\* and no response is sent
Raise(msg) ==
    IF pc.blk = "try"
    THEN /\ pc' = [blk |-> "catch", ip |-> 1]
         /\ err' = [msg |-> msg, processingTime |-> now - started]
    ELSE /\ pc' = Done
         /\ err' = err

Call(svc, arg) == [svc |-> svc, arg |-> arg]

\* a platform taken from the request's platform field
Platform_FromField == IF req.platform.k = "str" THEN req.platform.v ELSE "unknown"

Platform == detectPlatformFromUrl(req.videoUrl)

\* what no step of the handler changes: the deployment, the request, and the
\* state of the specifications that do not run the handler
configVars == <<rev, sinkConfigured, req, jobs, listing, detected>>
mediaVars == <<videoInfo, tempDir, attempts, wavPath, wavSmall, chunks>>
textVars == <<inflight, settleOrder, parts, earlyTranscript, analysis, fullTranscript,
              summary>>

\* a validation that does not look at platform
MissingField_IgnoresPlatform(r) == ~Truthy(r.summaryId) \/ ~Truthy(r.videoUrl)

\* line 566: !summaryId || !videoUrl || !platform
MissingField(r) == ~Truthy(r.summaryId) \/ ~Truthy(r.videoUrl) \/ ~Truthy(r.platform)

\* lines 561-568
Validate ==
    /\ pc.blk = "start"
    /\ started' = now
    /\ Tick
    /\ IF MissingField(req)
       THEN /\ responses' = Append(responses,
                   [status |-> 400,
                    body |-> JObj([success |-> JBool(FALSE),
                                   error |-> JStr("Missing summaryId | videoUrl | platform")])])
            /\ pc' = Done
       ELSE /\ pc' = [blk |-> "try", ip |-> 1]
            /\ UNCHANGED responses
    /\ UNCHANGED <<configVars, mediaVars, textVars, sink, running, events, calls, err>>

\* await postProgress(...): the arguments are evaluated, then the push is
\* sent and awaited, or skipped
PostProgress ==
    /\ At("postProgress") /\ sink = "idle"
    /\ Tick
    /\ IF Stmt.reads /\ Nullish(analysis)
       THEN /\ Raise("Cannot read properties of null (reading 'contentType')")
            /\ UNCHANGED <<events, sink>>
       ELSE IF ~PushesProgress
       THEN Advance /\ UNCHANGED <<events, sink, err>>
       ELSE /\ events' = Append(events, ProgressEvent)
            /\ sink' = "pending"
            /\ UNCHANGED <<pc, err>>
    /\ UNCHANGED <<configVars, mediaVars, textVars, running, started, calls, responses>>

\* the sink answers the push: accepted, a non-2xx status, or a network error
SinkAnswer(o) ==
    /\ sink = "pending"
    /\ sink' = "idle"
    /\ Tick
    /\ IF postProgress(o).thrown THEN Raise(postProgress(o).msg)
       ELSE Advance /\ UNCHANGED err
    /\ UNCHANGED <<configVars, mediaVars, textVars, running, started, events, calls, responses>>

\* line 573: the yt-dlp metadata lookup is started
ExtractVideoInfo ==
    /\ At("extractVideoInfo") /\ running = "none"
    /\ running' = "info"
    /\ calls' = Append(calls, Call("video-info", InfoProfile(Platform)))
    /\ Tick
    /\ UNCHANGED <<configVars, mediaVars, textVars, pc, sink, started, events, err, responses>>

\* lines 116-134: the exec callback
VideoInfoExit(o) ==
    /\ running = "info"
    /\ running' = "none"
    /\ videoInfo' = VideoInfoOf(Platform, o)
    /\ Advance /\ Tick
    /\ UNCHANGED <<configVars, textVars, tempDir, attempts, wavPath, wavSmall, chunks,
                   sink, started, events, calls, err, responses>>

\* a loop that goes through the whole list whatever a strategy left
AfterExit_KeepGoing(won, i, n) ==
    IF i < n THEN "next" ELSE IF won THEN "return" ELSE "throw"

\* the loop of lines 167-185 after strategy i of n exited: return the file,
\* go on with the next strategy, or throw
AfterExit(won, i, n) ==
    IF won THEN "return" ELSE IF i < n THEN "next" ELSE "throw"

\* line 185 (part_000: line 123)
ExhaustedMessage(r) ==
    IF r = "app" THEN "All audio extraction strategies failed" ELSE "Audio extraction failed"

\* what the loop knows of attempt i once it exited with o into directory dir
Exited(i, o, dir) ==
    [i |-> i,
     result |-> IF StrategyWins(o, dir) THEN "won" ELSE "failed",
     exit |-> o.exit,
     found |-> IF AudioFiles(dir) = {} THEN "none" ELSE FirstFile(dir),
     size |-> IF AudioFiles(dir) = {} THEN 0 ELSE dir[FirstFile(dir)].size]

Started(i) == [i |-> i, result |-> "running", exit |-> "none", found |-> "none", size |-> 0]

\* lines 139-173: the temp directory is made and the first strategy started
DownloadAndExtractAudio ==
    /\ At("downloadAndExtractAudio") /\ running = "none"
    /\ running' = "audio"
    /\ tempDir' = NoProps
    /\ attempts' = <<Started(1)>>
    /\ calls' = Append(calls, Call("acquisition", Strategies(Platform)[1]))
    /\ Tick
    /\ UNCHANGED <<configVars, textVars, videoInfo, wavPath, wavSmall, chunks,
                   pc, sink, started, events, err, responses>>

\* lines 171-185: a strategy exited (o = [exit, file, size]); it wins, or
\* the next one is started, or the list is exhausted
StrategyExit(o) ==
    LET i == Len(attempts)
        dir == WriteFile(tempDir, o.file, o.size, i)
        then == AfterExit(StrategyWins(o, dir), i, Len(Strategies(Platform)))
    IN  /\ running = "audio"
        /\ tempDir' = dir
        /\ Tick
        /\ IF then = "return"
           THEN /\ attempts' = [attempts EXCEPT ![i] = Exited(i, o, dir)]
                /\ wavPath' = FirstFile(dir)
                /\ running' = "none"
                /\ Advance
                /\ UNCHANGED <<calls, err>>
           ELSE IF then = "next"
           THEN /\ attempts' = Append([attempts EXCEPT ![i] = Exited(i, o, dir)],
                                      Started(i + 1))
                /\ calls' = Append(calls, Call("acquisition", Strategies(Platform)[i + 1]))
                /\ UNCHANGED <<wavPath, running, pc, err>>
           ELSE /\ attempts' = [attempts EXCEPT ![i] = Exited(i, o, dir)]
                /\ running' = "none"
                /\ Raise(ExhaustedMessage(rev))
                /\ UNCHANGED <<wavPath, calls>>
        /\ UNCHANGED <<configVars, textVars, videoInfo, wavSmall, chunks,
                       sink, started, events, responses>>

\* lines 189-198: the asset passes, or ffmpeg is started to re-encode it
CompressIfNeeded ==
    /\ At("compressIfNeeded") /\ running = "none"
    /\ Tick
    /\ IF FitsWhisper(tempDir[wavPath].size)
       THEN /\ wavSmall' = wavPath
            /\ Advance
            /\ UNCHANGED <<running, calls>>
       ELSE /\ running' = "compress"
            /\ calls' = Append(calls, Call("transcoding", "re-encode"))
            /\ UNCHANGED <<wavSmall, pc>>
    /\ UNCHANGED <<configVars, textVars, videoInfo, tempDir, attempts, wavPath, chunks,
                   sink, started, events, err, responses>>

\* lines 196-202: ffmpeg exited (o = [exit, size]); it refuses to write its
\* own input, so it cannot succeed when the output path is the input path
CompressExit(o) ==
    LET out == CompressedName(wavPath) IN
    /\ running = "compress"
    /\ o.exit = "ok" => out # wavPath
    /\ running' = "none"
    /\ Tick
    /\ IF o.exit # "ok"
       THEN /\ Raise("Command failed: ffmpeg")
            /\ UNCHANGED <<tempDir, wavSmall>>
       ELSE /\ tempDir' = WriteFile(tempDir, out, o.size, 0)
            /\ wavSmall' = out
            /\ Advance
            /\ UNCHANGED err
    /\ UNCHANGED <<configVars, textVars, videoInfo, attempts, wavPath, chunks,
                   sink, started, events, calls, responses>>

\* lines 206-213: ffmpeg is started to split the asset
SegmentAudio ==
    /\ At("segmentAudio") /\ running = "none"
    /\ running' = "segment"
    /\ calls' = Append(calls, Call("transcoding", "segment"))
    /\ Tick
    /\ UNCHANGED <<configVars, mediaVars, textVars, pc, sink, started, events, err, responses>>

\* lines 213-217 and 586: ffmpeg exited (o = [exit, n]) leaving n part files
SegmentExit(o) ==
    /\ running = "segment"
    /\ running' = "none"
    /\ Tick
    /\ IF o.exit # "ok"
       THEN Raise("Command failed: ffmpeg") /\ UNCHANGED chunks
       ELSE /\ chunks' = o.n
            /\ IF o.n = 0 THEN Raise("No audio chunks produced")
               ELSE Advance /\ UNCHANGED err
    /\ UNCHANGED <<configVars, textVars, videoInfo, tempDir, attempts, wavPath, wavSmall,
                   sink, started, events, calls, responses>>

InEarly == At("transcribeEarly")
PhaseIdx == IF InEarly THEN EarlyIdx(chunks) ELSE RestIdx(chunks)

\* a phase that requests every chunk up to hi again
ChunkCalls_FromZero(lo, hi) ==
    [k \in 1..(hi + 1) |-> [svc |-> "speech-to-text", arg |-> k - 1]]

RECURSIVE ChunkCalls(_, _)
\* chunks.slice(lo, hi + 1).map(transcribeChunk): one request per chunk, in
\* index order
ChunkCalls(lo, hi) ==
    IF lo > hi THEN <<>> ELSE <<Call("speech-to-text", lo)>> \o ChunkCalls(lo + 1, hi)

\* lines 590-591 and 602: the requests of a phase are sent and awaited
\* together; Promise.all of no request resolves at once
TranscribeStart ==
    /\ (At("transcribeEarly") \/ At("transcribeRest")) /\ running = "none"
    /\ Tick
    /\ settleOrder' = <<>>
    /\ IF PhaseIdx = {}
       THEN /\ fullTranscript' = FullTranscriptOf(earlyTranscript, parts, chunks)
            /\ Advance
            /\ UNCHANGED <<inflight, running, calls>>
       ELSE /\ inflight' = PhaseIdx
            /\ running' = "whisper"
            /\ calls' = calls \o ChunkCalls(IF InEarly THEN 0 ELSE EarlyN(chunks),
                                            IF InEarly THEN EarlyN(chunks) - 1 ELSE chunks - 1)
            /\ UNCHANGED <<fullTranscript, pc>>
    /\ UNCHANGED <<configVars, mediaVars, parts, earlyTranscript, analysis, summary,
                   sink, started, events, err, responses>>

\* a Promise.all that does not pass a rejection on
AllSettle_DropsRejection(thrown, last) ==
    IF last /\ ~thrown THEN "resolve" ELSE "wait"

\* Promise.all (lines 591, 602) when one of its promises settles: it rejects
\* with the first rejection, resolves with the last fulfilment
AllSettle(thrown, last) ==
    IF thrown THEN "reject" ELSE IF last THEN "resolve" ELSE "wait"

\* the request for chunk i is answered (o), in any order.  While the handler
\* awaits the phase: a failure rejects Promise.all at once, the last success
\* resolves it and the transcript is joined (lines 592, 603).  After a
\* rejection the answers of the other requests are dropped.
TranscribeChunkDone(i, o) ==
    LET r == transcribeChunk(o)
        ps == IF r.thrown THEN parts ELSE (i :> r.val.v) @@ parts
        settled == AllSettle(r.thrown, inflight = {i})
    IN  /\ i \in inflight
        /\ inflight' = inflight \ {i}
        /\ IF running # "whisper"
           THEN UNCHANGED <<running, settleOrder, parts, earlyTranscript, fullTranscript,
                            pc, err, now>>
           ELSE IF settled = "reject"
           THEN /\ running' = "none"
                /\ Raise(r.msg)
                /\ Tick
                /\ UNCHANGED <<settleOrder, parts, earlyTranscript, fullTranscript>>
           ELSE /\ parts' = ps
                /\ settleOrder' = Append(settleOrder, i)
                /\ Tick
                /\ IF settled = "resolve"
                   THEN /\ running' = "none"
                        /\ Advance
                        /\ IF InEarly
                           THEN /\ earlyTranscript' = EarlyTranscriptOf(ps, chunks)
                                /\ UNCHANGED fullTranscript
                           ELSE /\ fullTranscript' = FullTranscriptOf(earlyTranscript, ps, chunks)
                                /\ UNCHANGED earlyTranscript
                   ELSE UNCHANGED <<running, pc, earlyTranscript, fullTranscript>>
                /\ UNCHANGED err
        /\ UNCHANGED <<configVars, mediaVars, analysis, summary, sink, started, events,
                       calls, responses>>

\* a classifier that reads the full transcript
ClassifierInput_Full == firstChars(fullTranscript, SnippetChars(rev))

\* lines 597 and 448: the snippet of the early transcript put in the prompt
ClassifierInput == firstChars(earlyTranscript, SnippetChars(rev))

\* line 597: the classifier, with the completion service's answer o
AnalyzeContentType(o) ==
    LET r == IF rev = "app" THEN analyzeContentType(videoInfo, o)
             ELSE analyzeContentType_0(videoInfo, o)
    IN  /\ At("analyzeContentType")
        /\ Tick
        /\ calls' = IF PromptTitle(videoInfo).thrown THEN calls
                    ELSE Append(calls, Call("text-completion",
                                            [task |-> "classify",
                                             input |-> ClassifierInput]))
        /\ IF r.thrown THEN Raise(r.msg) /\ UNCHANGED analysis
           ELSE analysis' = r.val /\ Advance /\ UNCHANGED err
        /\ UNCHANGED <<configVars, mediaVars, inflight, settleOrder, parts, earlyTranscript,
                       fullTranscript, summary, sink, running, started, events, responses>>

\* whether the synthesizer of the deployed revision sends a completion request
SynthesizerCalls ==
    IF rev = "app" THEN SummaryCalls(fullTranscript, analysis)
    ELSE ~SummaryType(analysis).thrown /\ ~PromptTitle(videoInfo).thrown

\* line 608: the synthesizer, with the completion service's answer o
GenerateSpecializedSummary(o) ==
    LET r == IF rev = "app"
             THEN generateSpecializedSummary(fullTranscript, videoInfo, analysis, o)
             ELSE generateSpecializedSummary_0(fullTranscript, videoInfo, analysis, o)
    IN  /\ At("generateSpecializedSummary")
        /\ Tick
        /\ calls' = IF SynthesizerCalls
                    THEN Append(calls, Call("text-completion",
                                            [task |-> "summarize",
                                             input |-> firstChars(fullTranscript, PromptChars)]))
                    ELSE calls
        /\ IF r.thrown THEN Raise(r.msg) /\ UNCHANGED summary
           ELSE summary' = r.val /\ Advance /\ UNCHANGED err
        /\ UNCHANGED <<configVars, mediaVars, inflight, settleOrder, parts, earlyTranscript, analysis,
                       fullTranscript, sink, running, started, events, responses>>

\* line 612
NormalizeForUI ==
    LET r == IF rev = "app" THEN normalizeForUI(summary, analysis)
             ELSE normalizeForUI_0(summary, analysis)
    IN  /\ At("normalizeForUI")
        /\ Tick
        /\ IF r.thrown THEN Raise(r.msg) /\ UNCHANGED summary
           ELSE summary' = r.val /\ Advance /\ UNCHANGED err
        /\ UNCHANGED <<configVars, mediaVars, inflight, settleOrder, parts, earlyTranscript, analysis,
                       fullTranscript, sink, running, started, events, calls, responses>>

\* res.json(body): what the client receives is the body written as JSON
Wire(x) == JsonParse(Stringify(x)).val

\* lines 616-628 (part_000: 313-315)
SuccessData ==
    LET base == [videoInfo |-> videoInfo,
                 transcription |-> JText(fullTranscript),
                 summary |-> summary,
                 wordCount |-> JNum(WordCount(Trim(fullTranscript)))]
    IN  IF rev = "app"
        THEN JObj(base @@ [processingMethod |-> JStr("audio-only+chunked+ai-structured"),
                           processingTimeMs |-> JNum(now - started),
                           analysis |-> analysis])
        ELSE JObj(base @@ [processingMethod |-> JStr("audio-only+chunked")])

\* line 631
Respond200 ==
    /\ At("respond200")
    /\ responses' = Append(responses,
                           [status |-> 200,
                            body |-> Wire(JObj([success |-> JBool(TRUE),
                                                data |-> SuccessData]))])
    /\ pc' = Done
    /\ Tick
    /\ UNCHANGED <<configVars, mediaVars, textVars, sink, running, started, events,
                   calls, err>>

\* lines 645-650 (part_000: 320)
FailureBody ==
    LET base == [success |-> JBool(FALSE), error |-> JStr(err.msg)] IN
    IF rev = "app"
    THEN JObj(base @@ [processingTimeMs |-> JNum(err.processingTime),
                       stage |-> JStr("processing_failed")])
    ELSE JObj(base)

Respond500 ==
    /\ At("respond500")
    /\ responses' = Append(responses, [status |-> 500, body |-> Wire(FailureBody)])
    /\ pc' = Done
    /\ Tick
    /\ UNCHANGED <<configVars, mediaVars, textVars, sink, running, started, events,
                   calls, err>>

-----------------------------------------------------------------------------
(* The environment: requests, and what the collaborators answer *)

\* the most part files ffmpeg leaves
MaxChunks == 3

Request(id, url, platform) == [summaryId |-> id, videoUrl |-> url, platform |-> platform]

InstagramReel == JText(<<"https://www.", "Instagram.COM", "/reel/1">>)
YoutubeShort == JText(<<"https://", "youtu.be", "/x">>)
OtherClip == JText(<<"https://", "example.org", "/clip.mp4">>)

ValidRequests ==
    { Request(JStr("s1"), InstagramReel, JStr("instagram")),
      Request(JStr("s1"), YoutubeShort, JStr("youtube")),
      Request(JStr("s1"), OtherClip, JStr("other")) }
\* a field missing, a field empty, no body at all
InvalidRequests ==
    { Request(JUndef, YoutubeShort, JStr("youtube")),
      Request(JStr("s1"), JStr(""), JStr("youtube")),
      Request(JStr("s1"), YoutubeShort, JUndef),
      Request(JStr("s1"), YoutubeShort, JStr("")),
      Request(JUndef, JUndef, JUndef) }

SinkOutcomes == {"accepted", "non2xx", "neterr"}

\* yt-dlp --dump-json: [error, stdout]
InfoJson(x) == [error |-> FALSE, stdout |-> Stringify(x)]
InfoFailed == [error |-> TRUE, stdout |-> <<>>]
InfoOutcomes ==
    { InfoFailed,
      InfoJson(JObj([title |-> JStr("Pasta"), duration |-> JNum(30)])),
      InfoJson(EmptyObj) }
InfoOddOutcomes ==
    { [error |-> FALSE, stdout |-> <<W("WARNING")>>],
      InfoJson(JNull),
      InfoJson(JObj([title |-> JNum(7)])) }

\* one yt-dlp download: how it exited, the file it left and its size in KiB
StrategyOutcome(exit, file, size) == [exit |-> exit, file |-> file, size |-> size]
StrategyOutcomes ==
    { StrategyOutcome("ok", "audio.wav", 5),
      StrategyOutcome("ok", "audio.wav", 24 * 1024 + 1),
      StrategyOutcome("ok", "none", 0),
      StrategyOutcome("error", "none", 0),
      StrategyOutcome("error", "audio.m4a.part", 5) }

\* the re-encoding ffmpeg: how it exited and the size of its output in KiB
CompressOutcomes ==
    { [exit |-> "ok", size |-> 100], [exit |-> "ok", size |-> 24 * 1024 + 1],
      [exit |-> "error", size |-> 0] }

\* the segmenting ffmpeg: how it exited and how many part files it left
SegmentOutcomes ==
    {[exit |-> "error", n |-> 0]} \cup {[exit |-> "ok", n |-> n] : n \in 0..MaxChunks}

\* the speech-to-text service
Heard(chars) == Http(TRUE, Stringify(JObj([text |-> JText(chars)])))
SpeechOutcomes == { NetErr, Heard(<<"a">>) }
SpeechOddOutcomes ==
    { Http(FALSE, <<>>), Http(TRUE, <<W("<html>")>>), Http(TRUE, Stringify(EmptyObj)),
      Heard(<<" ">>), Heard(<<"b", " ", "c">>) }

\* the completion service answering the classifier
Completion(toks) == Http(TRUE, ChatBody(JText(toks)))
Classified(label) == Completion(Stringify(JObj([contentType |-> label])))
ClassifierOutcomes ==
    { NetErr, Classified(JStr("Recipe")), Classified(JStr("TUTORIAL")) }
ClassifierOddOutcomes ==
    { Http(FALSE, <<>>), Http(TRUE, <<W("<html>")>>), Http(TRUE, Stringify(EmptyObj)),
      Http(TRUE, ChatBody(JNull)),
      Completion(<<W("Sure")>>), Completion(Stringify(JNull)),
      Completion(Stringify(EmptyObj)), Completion(Stringify(EmptyArr)),
      Classified(JNum(7)), Classified(JStr("story")), Classified(JStr("vlog")),
      Completion(<<W("Here")>> \o Stringify(JObj([contentType |-> JStr("Recipe")]))) }

\* the completion service answering a synthesizer
GoodDoc ==
    JObj([title |-> JStr("T"),
          steps |-> JArr(<<JObj([step |-> JNum(2), instruction |-> JStr("mix")])>>)])
SummaryOutcomes == { NetErr, Completion(Stringify(GoodDoc)) }
SummaryOddOutcomes ==
    { Http(FALSE, <<>>), Http(TRUE, <<W("<html>")>>), Http(TRUE, Stringify(EmptyObj)),
      Completion(<<W("Sorry")>>), Completion(Stringify(JNull)),
      Completion(Stringify(EmptyArr)), Completion(Stringify(JNum(7))),
      Completion(Stringify(EmptyObj)),
      Completion(Stringify(JObj([steps |-> JStr("x"), tips |-> JNum(1),
                                 readable |-> JNum(3)]))),
      Completion(<<W("Here")>> \o Stringify(GoodDoc)) }

\* a universe: the deployments, the requests and the answers a
\* specification lets the environment choose from
Universe(revs, reqs, info, strat, comp, seg, stt, cls, sum) ==
    [revs |-> revs, reqs |-> reqs, info |-> info, strat |-> strat, comp |-> comp,
     seg |-> seg, stt |-> stt, cls |-> cls, sum |-> sum]

\* every acquisition and media outcome, the plain answers of the services
MediaUniverse(revs) ==
    Universe(revs, ValidRequests \cup InvalidRequests, InfoOutcomes, StrategyOutcomes,
             CompressOutcomes, SegmentOutcomes, SpeechOutcomes, ClassifierOutcomes,
             SummaryOutcomes)

\* one request and one media path, every answer of the services
TextUniverse(revs) ==
    Universe(revs, {Request(JStr("s1"), OtherClip, JStr("other"))},
             {InfoFailed, InfoJson(EmptyObj)} \cup InfoOddOutcomes,
             {StrategyOutcome("ok", "audio.wav", 24 * 1024 + 1),
              StrategyOutcome("error", "none", 0)},
             {[exit |-> "ok", size |-> 100]},
             {[exit |-> "ok", n |-> n] : n \in {1, MaxChunks}},
             SpeechOutcomes \cup SpeechOddOutcomes,
             ClassifierOutcomes \cup ClassifierOddOutcomes,
             SummaryOutcomes \cup SummaryOddOutcomes)

\* the timeout option of the exec call that starts each external process, in
\* milliseconds; 0 is child_process.exec's default: the process is never killed
AcquisitionTimeout == 120000

ExecTimeout(proc) == IF proc = "audio" THEN AcquisitionTimeout ELSE 0

\* the external processes a job starts with child_process.exec
ExecProcesses == {"info", "audio", "compress", "segment"}

-----------------------------------------------------------------------------
(* Two jobs of one worker process: the directories they create and read *)

\* the milliseconds Date.now() takes while the two jobs start
MaxMillis == 2

JobIds == {1, 2}

\* the number of part files one ffmpeg segment run writes
JobParts == {1, 2}

\* os.tmpdir() holds one directory audio-<ms> per millisecond; its audio file
\* and the files of its chunks directory are known by the job that wrote them
EmptyDir == [audio |-> 0, parts |-> <<>>]

NoJobs ==
    [clock |-> 0,
     dir |-> [j \in JobIds |-> -1],
     fs |-> [d \in 0..MaxMillis |-> EmptyDir],
     audioPath |-> [j \in JobIds |-> FALSE],
     segmented |-> [j \in JobIds |-> FALSE],
     chunkList |-> [j \in JobIds |-> <<>>]]

\* a millisecond passes
ClockTick ==
    /\ jobs.clock < MaxMillis
    /\ jobs' = [jobs EXCEPT !.clock = @ + 1]

\* const tempDir = path.join(os.tmpdir(), 'audio-' + Date.now());
\* fs.mkdirSync(tempDir, { recursive: true }): an existing directory is kept
MakeTempDir(j) ==
    /\ jobs.dir[j] = -1
    /\ jobs' = [jobs EXCEPT !.dir[j] = jobs.clock]

\* a strategy exits without error: yt-dlp wrote audio.wav, or left the audio
\* file it found in place; readdirSync(tempDir) then returns files[0]
AcquireExit(j, wrote) ==
    LET d == jobs.dir[j]
        audio == IF wrote THEN j ELSE jobs.fs[d].audio
    IN  /\ d # -1
        /\ ~jobs.audioPath[j]
        /\ audio # 0
        /\ jobs' = [jobs EXCEPT !.fs[d].audio = audio, !.audioPath[j] = TRUE]

\* the files of <tempDir>/chunks after ffmpeg wrote part_000 .. part_(n-1)
PartsAfter(old, j, n) ==
    [i \in 1..(IF n > Len(old) THEN n ELSE Len(old)) |-> IF i <= n THEN j ELSE old[i]]

\* segmentAudio: dir = path.dirname(wavPath) + '/chunks', ffmpeg writes its
\* parts, readdirSync(dir) lists every part_ file of the directory
SegmentForJob(j, n) ==
    LET d == jobs.dir[j]
        written == PartsAfter(jobs.fs[d].parts, j, n)
    IN  /\ jobs.audioPath[j]
        /\ ~jobs.segmented[j]
        /\ jobs' = [jobs EXCEPT !.fs[d].parts = written, !.segmented[j] = TRUE,
                                !.chunkList[j] = written]

JobsStep ==
    \/ ClockTick
    \/ \E j \in JobIds : MakeTempDir(j)
    \/ \E j \in JobIds : \E wrote \in BOOLEAN : AcquireExit(j, wrote)
    \/ \E j \in JobIds : \E n \in JobParts : SegmentForJob(j, n)

-----------------------------------------------------------------------------
(* segmentAudio's chunk list: the part_NNN names and their sort *)

\* the longest segmentation examined, in chunks
MaxSegments == 1001

\* the numbers of part files the segmenter leaves
SegmentCounts == {1, 2, 11, MaxSegments - 1, MaxSegments}

\* the decimal digits of i as UTF-16 code units, most significant first
RECURSIVE Digits(_)
Digits(i) == IF i < 10 THEN <<48 + i>> ELSE Append(Digits(i \div 10), 48 + (i % 10))

\* printf's %03d: at least three digits, zero padded
Pad3(ds) == IF Len(ds) >= 3 THEN ds ELSE [k \in 1..(3 - Len(ds)) |-> 48] \o ds

\* 'part_%03d.wav' as code units: "part_" = 112 97 114 116 95, ".wav" = 46 119 97 118
PartName(i) == <<112, 97, 114, 116, 95>> \o Pad3(Digits(i)) \o <<46, 119, 97, 118>>

\* the names ffmpeg gives the fixed windows 0, 1, 2, ... of the audio
PartNames == [i \in 0..MaxSegments |-> PartName(i)]

\* Array.prototype.sort() without a comparator: a sorts before b by code units
RECURSIVE CodeLess(_, _, _)
CodeLess(a, b, k) ==
    IF k > Len(b) THEN FALSE
    ELSE IF k > Len(a) THEN TRUE
    ELSE IF a[k] # b[k] THEN a[k] < b[k]
    ELSE CodeLess(a, b, k + 1)

SortsBefore(x, y) == CodeLess(PartNames[x], PartNames[y], 1)

\* the window whose file follows window idx in the sorted list of n files
\* (idx = -1: the first of the list)
SortedNext(n, idx) ==
    CHOOSE x \in 0..(n - 1) :
        /\ idx = -1 \/ SortsBefore(idx, x)
        /\ \A y \in 0..(n - 1) : (idx = -1 \/ SortsBefore(idx, y)) => ~SortsBefore(y, x)

NoListing == [n |-> 0, pos |-> -1, idx |-> -1]

\* readdirSync(dir).filter(...).map(...).sort(), one list position at a time:
\* position pos of the returned list holds the file of window idx
SortChunks ==
    /\ listing.pos < listing.n - 1
    /\ listing' = [listing EXCEPT !.pos = @ + 1, !.idx = SortedNext(listing.n, listing.idx)]

-----------------------------------------------------------------------------
(* detectPlatformFromUrl as the runtime applies it *)

\* (url || '').toLowerCase() is a TypeError when url is truthy and not a string
DetectPlatform(url) ==
    IF Truthy(url) /\ url.k \notin {"str", "txt"}
    THEN Throw("(url || \"\").toLowerCase is not a function")
    ELSE Return(detectPlatformFromUrl(url))

\* the pieces the URLs below are made of
UrlPieces ==
    { "https://", "example.org", "instagram.com", "Instagram.COM", "tiktok.com",
      "TikTok.com", "facebook.com", "FB.Watch", "fb.com", "youtube.com", "youtu.be" }

\* strings in any letter case with none, one or two host patterns, the empty
\* string, null and undefined
UrlStrings ==
    { JText(<<a>>) : a \in UrlPieces } \cup { JText(<<a, b>>) : a, b \in UrlPieces }
    \cup { JStr(""), JNull, JUndef }

\* values that are not URLs
UrlOddValues == { JNum(5), JBool(TRUE) }

NoDetection == [url |-> JUndef, applied |-> FALSE, out |-> Return("unknown")]

ApplyDetectPlatform ==
    /\ ~detected.applied
    /\ detected' = [detected EXCEPT !.applied = TRUE, !.out = DetectPlatform(detected.url)]

-----------------------------------------------------------------------------
(* The state machine *)

\* the service is deployed and a request arrives
HandlerInit(U) ==
    /\ rev \in U.revs
    /\ sinkConfigured \in BOOLEAN
    /\ req \in U.reqs
    /\ pc = [blk |-> "start", ip |-> 0]
    /\ sink = "idle"
    /\ running = "none"
    /\ now = 0
    /\ started = 0
    /\ events = <<>>
    /\ calls = <<>>
    /\ videoInfo = JUndef
    /\ tempDir = NoProps
    /\ attempts = <<>>
    /\ wavPath = "none"
    /\ wavSmall = "none"
    /\ chunks = 0
    /\ inflight = {}
    /\ settleOrder = <<>>
    /\ parts = NoProps
    /\ earlyTranscript = <<>>
    /\ analysis = JUndef
    /\ fullTranscript = <<>>
    /\ summary = JUndef
    /\ err = NoErr
    /\ responses = <<>>

InitOf(U) ==
    /\ HandlerInit(U)
    /\ jobs = NoJobs
    /\ listing = NoListing
    /\ detected = NoDetection

\* the steps the handler takes by itself
HandlerStep ==
    \/ Validate
    \/ PostProgress
    \/ ExtractVideoInfo
    \/ DownloadAndExtractAudio
    \/ CompressIfNeeded
    \/ SegmentAudio
    \/ TranscribeStart
    \/ NormalizeForUI
    \/ Respond200
    \/ Respond500

\* the steps that take an answer of a collaborator other than the sink
AnswerStep(U) ==
    \/ \E o \in U.info : VideoInfoExit(o)
    \/ \E o \in U.strat : StrategyExit(o)
    \/ \E o \in U.comp : CompressExit(o)
    \/ \E o \in U.seg : SegmentExit(o)
    \/ \E i \in 0..MaxChunks : \E o \in U.stt : TranscribeChunkDone(i, o)
    \/ \E o \in U.cls : AnalyzeContentType(o)
    \/ \E o \in U.sum : GenerateSpecializedSummary(o)

SinkStep == \E o \in SinkOutcomes : SinkAnswer(o)

NextOf(U) == HandlerStep \/ AnswerStep(U) \/ SinkStep

Init == InitOf(MediaUniverse({"app"}))
Next == NextOf(MediaUniverse({"app"}))
\* src/app.js deployed
Spec == Init /\ [][Next]_vars

InitAll == InitOf(MediaUniverse({"app", "part000"}))
\* either revision deployed
SpecAll == InitAll /\ [][Next]_vars

InitText == InitOf(TextUniverse({"app"}))
NextText == NextOf(TextUniverse({"app"}))
\* src/app.js deployed, every answer of the completion and speech services
SpecText == InitText /\ [][NextText]_vars

InitTextAll == InitOf(TextUniverse({"app", "part000"}))
\* either revision deployed, every answer of the completion and speech services
SpecTextAll == InitTextAll /\ [][NextText]_vars

\* one media path to two and to MaxChunks + 1 chunks, and chunk texts that tell
\* the chunks apart
OrderUniverse(revs) ==
    Universe(revs, {Request(JStr("s1"), OtherClip, JStr("other"))},
             {InfoFailed},
             {StrategyOutcome("ok", "audio.wav", 24 * 1024 + 1)},
             {[exit |-> "ok", size |-> 100]},
             {[exit |-> "ok", n |-> n] : n \in {2, MaxChunks + 1}},
             {NetErr, Heard(<<"a">>), Heard(<<"b", " ", "c">>), Http(TRUE, Stringify(EmptyObj))},
             {Classified(JStr("Recipe"))},
             {Completion(Stringify(GoodDoc))})

InitOrder == InitOf(OrderUniverse({"app"}))
NextOrder == NextOf(OrderUniverse({"app"}))
\* src/app.js deployed, both transcription phases with two or more chunks
SpecOrder == InitOrder /\ [][NextOrder]_vars

\* completions whose step lists lose every entry to the filter of lines 266-269
StepDoc(steps) == JObj([title |-> JStr("T"), steps |-> steps])
EmptiedStepLists ==
    { EmptyArr, JArr(<<JNull, JStr("")>>), JArr(<<EmptyArr>>), JArr(<<JNum(0)>>),
      JArr(<<JObj([instruction |-> EmptyArr])>>) }
\* completions of which at least one entry is kept
KeptStepLists ==
    { JArr(<<JObj([instruction |-> JStr("")]), JStr("stir"), JNull>>),
      JArr(<<JObj([action |-> JStr("chop")]), JObj([title |-> JStr("cut")])>>),
      JArr(<<JObj([step |-> JNum(2), instruction |-> JNum(7)])>>) }
StepCompletions ==
    { Completion(Stringify(StepDoc(l))) : l \in EmptiedStepLists \cup KeptStepLists }

\* one media path of one chunk, a recipe or a tutorial, and the step lists
\* above next to the empty object, the array, the non-JSON text and the failures
StepsUniverse(revs) ==
    Universe(revs, {Request(JStr("s1"), OtherClip, JStr("other"))},
             {InfoFailed},
             {StrategyOutcome("ok", "audio.wav", 24 * 1024 + 1)},
             {[exit |-> "ok", size |-> 100]},
             {[exit |-> "ok", n |-> 1]},
             {NetErr, Heard(<<"a">>)},
             {Classified(JStr("Recipe")), Classified(JStr("TUTORIAL"))},
             StepCompletions \cup
             { NetErr, Http(FALSE, <<>>), Http(TRUE, <<W("<html>")>>),
               Completion(<<W("Sorry")>>), Completion(Stringify(EmptyObj)),
               Completion(Stringify(EmptyArr)),
               Completion(Stringify(JObj([steps |-> JStr("x")]))) })

InitSteps == InitOf(StepsUniverse({"app"}))
NextSteps == NextOf(StepsUniverse({"app"}))
\* src/app.js deployed, a recipe or a tutorial synthesized from every step list
SpecSteps == InitSteps /\ [][NextSteps]_vars

\* a list of two strategies that can leave a partial download or a finished
\* wav file, each under or over the ceiling of the speech-to-text service
AssetUniverse(revs) ==
    Universe(revs, {Request(JStr("s1"), YoutubeShort, JStr("youtube"))},
             {InfoFailed},
             {StrategyOutcome("ok", "audio.wav", 5),
              StrategyOutcome("ok", "audio.wav", 24 * 1024),
              StrategyOutcome("ok", "audio.wav", 24 * 1024 + 1),
              StrategyOutcome("ok", "none", 0),
              StrategyOutcome("error", "none", 0),
              StrategyOutcome("error", "audio.m4a.part", 5),
              StrategyOutcome("error", "audio.m4a.part", 24 * 1024 + 1)},
             CompressOutcomes,
             {[exit |-> "ok", n |-> 1]},
             {NetErr, Heard(<<"a">>)},
             {Classified(JStr("Recipe"))},
             {Completion(Stringify(GoodDoc))})

InitAssets == InitOf(AssetUniverse({"app", "part000"}))
NextAssets == NextOf(AssetUniverse({"app", "part000"}))
\* either revision deployed, every file the acquirer can hand to the normalizer
SpecAssets == InitAssets /\ [][NextAssets]_vars

\* requests that differ only in the platform field, which names the URL's
\* platform, another platform, no platform, or is no string
PlatformFields == { JStr("instagram"), JStr("youtube"), JStr("x"), JNum(7) }
PlatformUniverse(revs) ==
    Universe(revs,
             { Request(JStr("s1"), url, p) : url \in {InstagramReel, OtherClip},
                                            p \in PlatformFields },
             {InfoFailed, InfoJson(EmptyObj)},
             {StrategyOutcome("ok", "audio.wav", 24 * 1024 + 1),
              StrategyOutcome("error", "none", 0)},
             {[exit |-> "ok", size |-> 100]},
             {[exit |-> "ok", n |-> 1]},
             {NetErr, Heard(<<"a">>)},
             {Classified(JStr("Recipe"))},
             {Completion(Stringify(GoodDoc))})

InitPlatform == InitOf(PlatformUniverse({"app"}))
NextPlatform == NextOf(PlatformUniverse({"app"}))
\* src/app.js deployed, the same URL submitted with every platform field
SpecPlatform == InitPlatform /\ [][NextPlatform]_vars

\* completions of formatTranscript: a readable text, and every way of having none
ReadableGiven == Completion(Stringify(JObj([readable |-> JText(<<"A", ".">>)])))
ReadableMissing ==
    { NetErr, Http(FALSE, <<>>), Http(TRUE, <<W("<html>")>>),
      Completion(<<W("Sorry")>>), Completion(Stringify(JNull)),
      Completion(Stringify(EmptyArr)), Completion(Stringify(EmptyObj)),
      Completion(Stringify(JObj([readable |-> JStr("")]))),
      Completion(Stringify(JObj([readable |-> JNull]))) }

\* one media path of one or two chunks, heard or blank, classified story (by
\* the label, by another label, by the fallback)
StoryUniverse(revs) ==
    Universe(revs, {Request(JStr("s1"), OtherClip, JStr("other"))},
             {InfoFailed},
             {StrategyOutcome("ok", "audio.wav", 24 * 1024 + 1)},
             {[exit |-> "ok", size |-> 100]},
             {[exit |-> "ok", n |-> n] : n \in {1, 2}},
             {NetErr, Heard(<<"a">>), Heard(<<" ">>)},
             {NetErr, Classified(JStr("story")), Classified(JStr("vlog"))},
             {ReadableGiven} \cup ReadableMissing)

InitStory == InitOf(StoryUniverse({"app"}))
NextStory == NextOf(StoryUniverse({"app"}))
\* src/app.js deployed, a story formatted from every completion
SpecStory == InitStory /\ [][NextStory]_vars

\* one accepted request at its arrival, for the specifications below
Arrived ==
    /\ HandlerInit(TextUniverse({"app"}))
    /\ ~sinkConfigured

InitJobs ==
    /\ Arrived
    /\ jobs = NoJobs /\ listing = NoListing /\ detected = NoDetection
NextJobs ==
    /\ JobsStep
    /\ UNCHANGED <<handlerVars, listing, detected>>
\* two jobs of one process start, acquire and segment
SpecJobs == InitJobs /\ [][NextJobs]_vars

InitListing ==
    /\ Arrived
    /\ jobs = NoJobs /\ detected = NoDetection
    /\ \E n \in SegmentCounts : listing = [NoListing EXCEPT !.n = n]
NextListing ==
    /\ SortChunks
    /\ UNCHANGED <<handlerVars, jobs, detected>>
\* the segmenter's directory is listed and sorted
SpecListing == InitListing /\ [][NextListing]_vars

InitDetect ==
    /\ Arrived
    /\ jobs = NoJobs /\ listing = NoListing
    /\ \E u \in UrlStrings \cup UrlOddValues : detected = [NoDetection EXCEPT !.url = u]
NextDetect ==
    /\ ApplyDetectPlatform
    /\ UNCHANGED <<handlerVars, jobs, listing>>
\* detectPlatformFromUrl is applied to one value
SpecDetect == InitDetect /\ [][NextDetect]_vars

-----------------------------------------------------------------------------
(* The claims *)

\* all three request fields are present
Accepted == Truthy(req.summaryId) /\ Truthy(req.videoUrl) /\ Truthy(req.platform)

Keys(x) == DOMAIN Props(x)

\* the (stage, percent) pairs pushed so far, in emission order
StagePercents == [i \in 1..Len(events) |-> <<events[i].stage, events[i].percent>>]

\* acquisition, normalization, segmentation, both transcription phases,
\* classification, structuring and normalizing are behind the handler
AllStagesCompleted ==
    /\ err = NoErr
    /\ videoInfo # JUndef
    /\ Len(attempts) >= 1 /\ attempts[Len(attempts)].result = "won"
    /\ wavSmall # "none"
    /\ chunks >= 1
    /\ DOMAIN parts = 0..(chunks - 1)
    /\ inflight = {} /\ running = "none"
    /\ analysis # JUndef
    /\ summary # JUndef
    /\ Get(summary, "type") # JUndef

SuccessEnvelope(r) ==
    /\ r.status = 200
    /\ Get(r.body, "success") = JBool(TRUE)
    /\ {"videoInfo", "transcription", "summary", "wordCount", "processingMethod",
        "analysis"} \subseteq Keys(Get(r.body, "data"))

FailureEnvelope(r) ==
    /\ r.status = 500
    /\ Get(r.body, "success") = JBool(FALSE)
    /\ Keys(r.body) = {"success", "error", "processingTimeMs", "stage"}

\* C1: an accepted request gets at most one response while the handler runs
\* and exactly one when it has ended; the response is the 200 envelope with
\* videoInfo, transcription, summary, wordCount, processingMethod and analysis,
\* sent only after every stage has completed, or the 500 envelope.
C1_ExactlyOneResponse ==
    /\ Len(responses) <= 1
    /\ pc = Done => Len(responses) = 1
    /\ Accepted =>
         \A i \in 1..Len(responses) :
            \/ SuccessEnvelope(responses[i]) /\ AllStagesCompleted
            \/ FailureEnvelope(responses[i]) /\ err # NoErr

C1_Witness ==
    /\ Accepted /\ pc = Done
    /\ Len(responses) = 1 /\ responses[1].status = 200

\* the summary of a 200 response, as the client reads it
SummaryOnWire(r) == Get(Get(r.body, "data"), "summary")

AllArrays(doc, keys) == \A key \in keys : IsArray(Get(doc, key))

\* C2: on every 200 response the summary of a job classified as a recipe has
\* ingredients, steps and notes as arrays, and the summary of a job classified
\* as a tutorial has materials, steps, tips and warnings as arrays, whatever
\* text the completion service returned.
C2_SummaryFullyShaped ==
    \A i \in 1..Len(responses) :
        responses[i].status = 200 =>
            /\ SummaryType(analysis).val.v = "recipe" =>
                 AllArrays(SummaryOnWire(responses[i]), {"ingredients", "steps", "notes"})
            /\ SummaryType(analysis).val.v = "tutorial" =>
                 AllArrays(SummaryOnWire(responses[i]),
                           {"materials", "steps", "tips", "warnings"})

C2_Witness ==
    /\ Len(responses) = 1 /\ responses[1].status = 200
    /\ SummaryType(analysis).val.v = "recipe"
    /\ IsArray(SummaryOnWire(responses[1]))

\* C3: when the job has failed and the sink is in use, the last event pushed
\* is the only 'failed' event, it carries the error message and the elapsed
\* time, and the response is the HTTP 500 envelope.
C3_FailedEventThenEnvelope ==
    \A i \in 1..Len(responses) :
        (responses[i].status = 500 /\ PushesProgress) =>
            /\ FailureEnvelope(responses[i])
            /\ Len(events) >= 1
            /\ \A j \in 1..Len(events) : events[j].stage = "failed" <=> j = Len(events)
            /\ Get(events[Len(events)].partial, "error") = JStr(err.msg)
            /\ Get(events[Len(events)].partial, "processingTimeMs") = JNum(err.processingTime)

C3_Witness ==
    /\ rev = "part000" /\ PushesProgress
    /\ Len(responses) = 1 /\ responses[1].status = 500
    /\ \A j \in 1..Len(events) : events[j].stage # "failed"

\* C4: the step that runs generateSpecializedSummary never takes the handler
\* to its catch block, whatever the classifier returned and however the
\* completion call ended.
C4_SynthesizerNeverThrows ==
    [][At("generateSpecializedSummary") => pc'.blk # "catch"]_vars

C4_Witness ==
    /\ pc.blk = "catch"
    /\ err.msg = "toLowerCase is not a function"
    /\ Get(analysis, "contentType") = JNum(7)

SuccessSequence ==
    << <<"fetching_audio", 5>>, <<"downloading", 10>>, <<"transcoding", 15>>,
       <<"chunking", 20>>, <<"transcribing", 30>>, <<"transcribing", 40>>,
       <<"classifying", 45>>, <<"classifying", 50>>, <<"transcribing", 55>>,
       <<"transcribed", 70>>, <<"structuring", 80>>, <<"normalizing", 90>>,
       <<"finalizing", 95>> >>

PrefixThenFailed(seq) ==
    \E n \in 0..Len(SuccessSequence) :
        seq = SubSeq(SuccessSequence, 1, n) \o << <<"failed", 0>> >>

\* C6: with the sink in use, a job answered 200 has pushed exactly the 13
\* events of the stage vocabulary in order, and a job answered 500 has pushed
\* a prefix of them followed by failed 0.
C6_ExactEventSequence ==
    \A i \in 1..Len(responses) :
        PushesProgress =>
            /\ responses[i].status = 200 => StagePercents = SuccessSequence
            /\ responses[i].status = 500 => PrefixThenFailed(StagePercents)

C6_Witness ==
    /\ rev = "part000" /\ PushesProgress
    /\ Len(responses) = 1 /\ responses[1].status = 200
    /\ StagePercents # SuccessSequence

\* C7: no stage waits for the completion of a progress push: the step that
\* sends a push also takes the handler on to its next statement, so that a
\* sink that never answers cannot keep the job from its HTTP response.
C7_PushDoesNotHoldHandler ==
    [][Len(events') > Len(events) => pc' # pc]_vars

C7_Witness ==
    /\ sink = "pending" /\ At("postProgress")
    /\ events[Len(events)].stage = "fetching_audio"

\* the place the handler goes on from after the statement at pc
NextPc == IF pc.ip < Len(Body(rev, pc.blk)) THEN [pc EXCEPT !.ip = @ + 1] ELSE Done

\* C8: whatever the sink answers to a push (accepted, non-2xx, network
\* error), the handler goes on with its next statement: no exception is
\* raised, and the error, the responses and the data of the job are as they
\* were.
C8_SinkAnswerChangesNothing ==
    [][(sink = "pending" /\ sink' = "idle") =>
          /\ pc' = NextPc
          /\ UNCHANGED <<err, responses, events, calls, mediaVars, textVars, running>>]_vars

C8_Witness ==
    /\ sink = "pending"
    /\ Len(events) >= 2
    /\ events[Len(events)].stage = "failed"

\* the strategies started so far, as the acquisition collaborator saw them
RECURSIVE AcquisitionCalls(_)
AcquisitionCalls(cs) ==
    IF cs = <<>> THEN <<>>
    ELSE (IF Head(cs).svc = "acquisition" THEN <<Head(cs).arg>> ELSE <<>>)
         \o AcquisitionCalls(Tail(cs))

\* C9: the strategies started are the first ones of the platform's list, in
\* list order and each once; every one but the last has finished and failed,
\* so a strategy starts only after the one before it failed and none starts
\* after a win; one is running only while the acquirer runs.
C9_StrategiesInOrder ==
    /\ Len(attempts) <= Len(Strategies(Platform))
    /\ \A k \in 1..Len(attempts) : attempts[k].i = k
    /\ \A k \in 1..(Len(attempts) - 1) : attempts[k].result = "failed"
    /\ \A k \in 1..Len(attempts) : attempts[k].result = "running" <=>
                                      (k = Len(attempts) /\ running = "audio")
    /\ AcquisitionCalls(calls) = [k \in 1..Len(attempts) |-> Strategies(Platform)[k]]

C9_Witness ==
    /\ Len(attempts) = 3
    /\ attempts[3].result = "won"

\* C10: a strategy wins only if it exited without error and left a file of
\* more than 10 KB.
C10_WinsAboveNoiseFloor ==
    \A k \in 1..Len(attempts) :
        attempts[k].result = "won" => (attempts[k].exit = "ok" /\ attempts[k].size > 10)

\* C10 (amended): a strategy that has exited wins exactly when it exited
\* without error and the temp directory then holds a file named audio*, of
\* any size and written by any attempt; the file returned is the first by name.
C10_WinsWithAnyFile ==
    /\ \A k \in 1..Len(attempts) :
          attempts[k].result # "running" =>
              (attempts[k].result = "won" <=>
                  (attempts[k].exit = "ok" /\ attempts[k].found # "none"))
    /\ \A k \in 1..Len(attempts) :
          attempts[k].result = "won" => wavPath = attempts[k].found

C10_Witness ==
    \E k \in 1..Len(attempts) :
        attempts[k].result = "won" /\ attempts[k].size <= 10

\* attempt k has exited and did not produce a file: it exited with an error
\* (a timeout kills the process, which is an error exit), or it exited
\* successfully and no file in the temp directory was written by it
Fruitless(k) ==
    /\ attempts[k].result # "running"
    /\ \/ attempts[k].exit = "error"
       \/ ~ \E f \in DOMAIN tempDir : tempDir[f].by = k

\* every strategy of the platform's list has been tried and none produced a file
ExhaustedWithoutOutput ==
    /\ Len(attempts) = Len(Strategies(Platform))
    /\ \A k \in 1..Len(attempts) : Fruitless(k)

\* a collaborator of a stage after acquisition has been invoked
LaterStageInvoked ==
    \E c \in 1..Len(calls) :
        calls[c].svc \in {"transcoding", "speech-to-text", "text-completion"}

\* C11: once every strategy of the list has exited with an error or without
\* leaving a file, acquisition has failed with the exhausted error, nothing
\* of normalization, segmentation or transcription was invoked, and the job
\* ends with the failed event and the HTTP 500 envelope.
C11_ExhaustedFailsJob ==
    ExhaustedWithoutOutput =>
        /\ err.msg = ExhaustedMessage(rev)
        /\ pc.blk \in {"catch", "done"}
        /\ ~LaterStageInvoked
        /\ pc = Done =>
              /\ Len(responses) = 1 /\ FailureEnvelope(responses[1])
              /\ PushesProgress => events[Len(events)].stage = "failed"

\* the list is exhausted, no strategy produced a file, and the acquirer
\* returned the partial file an earlier strategy left
C11_Witness ==
    /\ ExhaustedWithoutOutput
    /\ attempts[Len(attempts)].result = "won"
    /\ wavPath = "audio.m4a.part"

\* the list is exhausted and every strategy failed as the acquirer judges it
ExhaustedAllFailed ==
    /\ Len(attempts) = Len(Strategies(Platform))
    /\ \A k \in 1..Len(attempts) : attempts[k].result = "failed"

\* C11 (as the acquirer judges a failure): with the list exhausted and every
\* strategy failed, the job fails with the exhausted error and no later stage.
C11_AllFailedFailsJob ==
    ExhaustedAllFailed =>
        /\ err.msg = ExhaustedMessage(rev)
        /\ pc.blk \in {"catch", "done"}
        /\ ~LaterStageInvoked
        /\ pc = Done =>
              /\ Len(responses) = 1 /\ FailureEnvelope(responses[1])
              /\ PushesProgress => events[Len(events)].stage = "failed"

\* segmentAudio has been called
SegmentationEntered ==
    \E c \in 1..Len(calls) : calls[c].svc = "transcoding" /\ calls[c].arg = "segment"

\* C12: the asset segmentAudio is called with is at most 24 MiB; when the
\* re-encoded asset is still above the ceiling segmentAudio is never called.
C12_SegmentedAssetFitsCeiling ==
    SegmentationEntered => FitsWhisper(tempDir[wavSmall].size)

\* the re-encoded asset is above the ceiling and has entered segmentation
C12_Witness ==
    /\ SegmentationEntered
    /\ wavSmall = "audio_compressed.wav"
    /\ ~FitsWhisper(tempDir[wavSmall].size)

\* the positions in the call history of the classifier's completion request
ClassifierCallAt(c) ==
    calls[c].svc = "text-completion" /\ calls[c].arg.task = "classify"

\* min(2, n)
MinTwo(n) == IF n <= 2 THEN n ELSE 2

\* the position holds the transcription request of a chunk of index >= min(2, n)
RestChunkCallAt(d) == calls[d].svc = "speech-to-text" /\ calls[d].arg >= MinTwo(chunks)

\* C13: when the classifier is invoked every one of the first min(2, n)
\* chunk transcriptions has been requested and has completed successfully;
\* the transcription of a chunk of index >= min(2, n) is requested only
\* after the classifier was invoked and has returned.
C13_BarrierThenClassifierThenRest ==
    /\ \A c \in 1..Len(calls) :
          ClassifierCallAt(c) =>
              /\ chunks >= 1
              /\ \A i \in 0..(MinTwo(chunks) - 1) :
                    /\ i \in DOMAIN parts
                    /\ \E d \in 1..(c - 1) : calls[d].svc = "speech-to-text" /\ calls[d].arg = i
              /\ \A d \in 1..(c - 1) : ~RestChunkCallAt(d)
    /\ \A d \in 1..Len(calls) :
          RestChunkCallAt(d) =>
              /\ analysis # JUndef
              /\ \E c \in 1..(d - 1) : ClassifierCallAt(c)

\* three chunks: two early ones, the classifier, then the third
C13_Witness ==
    /\ chunks = 3
    /\ \E d \in 1..Len(calls) : RestChunkCallAt(d)
    /\ \E c \in 1..Len(calls) : ClassifierCallAt(c)

\* the handler is in its try block past the named statement
Past(name) ==
    /\ pc.blk = "try"
    /\ \E k \in 1..(pc.ip - 1) : Body(rev, "try")[k].op = name

\* the texts of the chunks of index >= min(2, n), joined by single spaces
RestJoined == JoinSpace(PartsSeq(parts, MinTwo(chunks), chunks - 1))

StartsWith(t, u) == Len(t) >= Len(u) /\ SubSeq(t, 1, Len(u)) = u

ChunkFailedWhileAwaited ==
    /\ running = "whisper"
    /\ \E i \in inflight : i \notin inflight' /\ i \notin DOMAIN parts'

\* the job has an error and a chunk without text: a transcription failed
TranscriptionFailed ==
    /\ err # NoErr /\ chunks >= 1
    /\ DOMAIN parts # 0..(chunks - 1)

\* the chunk without text is one of the first min(2, n)
EarlyTranscriptionFailed ==
    /\ err # NoErr /\ chunks >= 1
    /\ \E i \in 0..(MinTwo(chunks) - 1) : i \notin DOMAIN parts

\* C15: the failure of one awaited chunk transcription takes the handler to
\* its catch block at once; a job in which a transcription failed gets no
\* 200 response and ends with the 500 response; after a failure in the early
\* phase neither the classifier nor a transcription of the remainder phase
\* is invoked.
C15_ChunkFailureFailsJob ==
    /\ [][ChunkFailedWhileAwaited => (pc'.blk = "catch" /\ err' # NoErr)]_vars
    /\ [](TranscriptionFailed =>
            /\ pc.blk \in {"catch", "done"}
            /\ \A r \in 1..Len(responses) : responses[r].status = 500
            /\ pc = Done => Len(responses) = 1)
    /\ [](EarlyTranscriptionFailed =>
            \A c \in 1..Len(calls) : ~ClassifierCallAt(c) /\ ~RestChunkCallAt(c))

\* of three chunks the first was transcribed and the second failed; the job
\* has ended
C15_Witness ==
    /\ pc = Done /\ chunks = 3
    /\ DOMAIN parts = {0}
    /\ err # NoErr

Labels == {JStr("recipe"), JStr("tutorial"), JStr("story")}

\* the analysis of a 200 response, as the client reads it
AnalysisOnWire(r) == Get(Get(r.body, "data"), "analysis")

\* C16: the contentType of the analysis the classifier returned, and of the
\* analysis in a 200 response, is one of recipe, tutorial, story, whatever
\* the completion service replied.
C16_ClassificationIsOneOfThree ==
    /\ analysis # JUndef => Get(analysis, "contentType") \in Labels
    /\ \A r \in 1..Len(responses) :
          responses[r].status = 200 =>
              Get(AnalysisOnWire(responses[r]), "contentType") \in Labels

\* the classifier passed on a label outside the three and the job was
\* answered 200 with it
C16_Witness ==
    /\ Len(responses) = 1 /\ responses[1].status = 200
    /\ Get(AnalysisOnWire(responses[1]), "contentType") = JStr("vlog")

\* the synthesizer produced a recipe or a tutorial document
StepsDocument ==
    /\ summary # JUndef
    /\ SummaryType(analysis).val.v \in {"recipe", "tutorial"}
    /\ IsArray(Get(summary, "steps"))

\* C17: in a recipe or tutorial document of the synthesizer the k-th step
\* has step = k, whatever numbers the completion supplied, and no step has
\* an empty instruction.
C17_StepsRenumbered ==
    StepsDocument =>
        \A k \in 1..Len(Get(summary, "steps").v) :
            /\ Get(Get(summary, "steps").v[k], "step") = JNum(k)
            /\ Truthy(Get(Get(summary, "steps").v[k], "instruction"))

\* the completion numbered its only step 2 and the document keeps the 2
C17_Witness ==
    /\ StepsDocument
    /\ Len(Get(summary, "steps").v) = 1
    /\ Get(Get(summary, "steps").v[1], "step") = JNum(2)

\* the job is classified as a tutorial
TutorialClassified ==
    /\ ~SummaryType(analysis).thrown
    /\ SummaryType(analysis).val.v = "tutorial"

\* the completion service's answer is no JSON, or the text it completed is no JSON
MalformedBody == Http(TRUE, <<W("<html>")>>)
MalformedContent == Completion(<<W("Sorry")>>)

\* the tutorial document of a failed generation
FailedTutorial(d) ==
    /\ Get(d, "type") = JStr("tutorial")
    /\ Get(d, "steps") = JArr(<<FailedStep>>)
    /\ Get(d, "materials") = EmptyArr
    /\ Get(d, "tips") = EmptyArr
    /\ IsArray(Get(d, "warnings")) /\ Len(Get(d, "warnings").v) = 1

\* C18: when the job is classified as a tutorial and the completion service
\* returns malformed JSON, the synthesizer's document has the single step
\* 'Summary generation failed. Please try again.', no materials, no tips, and
\* the error note in warnings.
C18_MalformedJsonGivesFailedTutorial ==
    [][\A o \in {MalformedBody, MalformedContent} :
          (TutorialClassified /\ GenerateSpecializedSummary(o)) => FailedTutorial(summary')]_vars

\* the synthesizer returned a tutorial without steps of its own and without
\* an error note
C18_Witness ==
    /\ TutorialClassified /\ Past("generateSpecializedSummary")
    /\ Get(summary, "steps") =
          JArr(<<JObj([step |-> JNum(1), instruction |-> JStr("No clear steps detected.")])>>)
    /\ Get(summary, "warnings") = EmptyArr

\* the answer of the completion service that is no JSON gives the failed tutorial
C18_MalformedBodyGivesFailedTutorial ==
    [][(TutorialClassified /\ GenerateSpecializedSummary(MalformedBody))
          => FailedTutorial(summary')]_vars

\* normalizeForUI of the deployed revision, applied to the job's summary
NormalizedAgain ==
    IF rev = "app" THEN normalizeForUI(summary, analysis)
    ELSE normalizeForUI_0(summary, analysis)

\* the documents the completion service's answers parse to
ParsedDocs ==
    { CompletionJson(o, JNull).val :
        o \in { a \in SummaryOutcomes \cup SummaryOddOutcomes :
                  ~CompletionJson(a, JNull).thrown } }

\* C19: the summary normalizeForUI returned is left unchanged by a second
\* normalizeForUI with the same analysis; the recipe and the tutorial
\* normalization of the synthesizer, applied to a document they produced
\* from any parsed completion, leave it unchanged.
C19_NormalizationIdempotent ==
    /\ Past("normalizeForUI") => NormalizedAgain = Return(summary)
    /\ At("generateSpecializedSummary") =>
          \A d \in ParsedDocs :
              /\ NormalizeRecipe(NormalizeRecipe(d, videoInfo), videoInfo)
                    = NormalizeRecipe(d, videoInfo)
              /\ NormalizeTutorial(NormalizeTutorial(d, videoInfo), videoInfo)
                    = NormalizeTutorial(d, videoInfo)

\* normalizeForUI of part_000 has repaired a recipe document
C19_Witness ==
    /\ rev = "part000" /\ Past("normalizeForUI")
    /\ Get(summary, "type") = JStr("recipe")
    /\ Get(summary, "equipment") = EmptyArr

\* the 400 answer to a request with a field missing
BadRequest(r) ==
    /\ r.status = 400
    /\ Get(r.body, "success") = JBool(FALSE)
    /\ Keys(r.body) = {"success", "error"}

\* C20: a request in which summaryId, videoUrl or platform is missing or
\* empty pushes no progress event, invokes no collaborator and creates no
\* temp directory; the handler ends at validation and the only response is
\* HTTP 400 {success:false, error}.
C20_MissingFieldIs400WithoutEffects ==
    ~Accepted =>
        /\ events = <<>> /\ sink = "idle"
        /\ calls = <<>> /\ running = "none" /\ inflight = {}
        /\ attempts = <<>> /\ tempDir = NoProps
        /\ pc.blk \in {"start", "done"}
        /\ \A r \in 1..Len(responses) : BadRequest(responses[r])
        /\ pc = Done <=> Len(responses) = 1

\* a request without platform, with the sink configured, has been answered
C20_Witness ==
    /\ req.platform = JUndef /\ Truthy(req.summaryId) /\ Truthy(req.videoUrl)
    /\ sinkConfigured
    /\ pc = Done /\ Len(responses) = 1 /\ responses[1].status = 400

\* the positions of the classifier's requests in the call history
ClassifierCalls == { c \in 1..Len(calls) : ClassifierCallAt(c) }

\* C21: the classifier is invoked at most once per job and its input is the
\* early transcript; the analysis it returned is never replaced afterwards,
\* and the type of the synthesizer's document is the one that analysis
\* routes to.
C21_ClassifiedOnceFromEarly ==
    /\ [](/\ Cardinality(ClassifierCalls) <= 1
          /\ \A c \in ClassifierCalls :
                calls[c].arg.input = firstChars(earlyTranscript, SnippetChars(rev))
          /\ analysis # JUndef => Cardinality(ClassifierCalls) = 1
          /\ Past("generateSpecializedSummary") =>
                Get(summary, "type") = JStr(SummaryType(analysis).val.v))
    /\ [][analysis # JUndef => analysis' = analysis]_vars

\* three chunks: the full transcript differs from the early one, the
\* classifier ran once and the summary has been normalized
C21_Witness ==
    /\ Past("normalizeForUI") /\ chunks = 3
    /\ fullTranscript # earlyTranscript
    /\ Cardinality(ClassifierCalls) = 1

\* a metadata value: a non-empty title, duration and thumbnail present
\* (possibly null)
ResolvedInfo(v) ==
    /\ Keys(v) = {"title", "duration", "thumbnail"}
    /\ Truthy(Get(v, "title"))

\* the placeholder "<platform> video"
PlaceholderInfo ==
    JObj([title |-> JStr(Platform \o " video"), duration |-> JNull, thumbnail |-> JNull])

\* the tool exited non-zero, printed no JSON, or printed JSON null
InfoToolFailures == { InfoFailed, [error |-> FALSE, stdout |-> <<W("WARNING")>>], InfoJson(JNull) }

\* C22: whatever the video-info tool does, extractVideoInfo resolves to a
\* metadata value with a non-empty title, raises nothing, and the handler
\* goes on to its next statement towards acquisition; a tool failure gives
\* the placeholder "<platform> video", JSON without the fields gives a
\* default title and null duration and thumbnail.
C22_MetadataNeverFailsJob ==
    /\ [][\A o \in {InfoFailed, InfoJson(EmptyObj)} \cup InfoOddOutcomes \cup InfoOutcomes :
            VideoInfoExit(o) =>
                /\ ResolvedInfo(videoInfo')
                /\ pc' = NextPc /\ pc'.blk = "try" /\ err' = NoErr
                /\ o \in InfoToolFailures => videoInfo' = PlaceholderInfo
                /\ o = InfoJson(EmptyObj) =>
                      /\ Get(videoInfo', "title") = JStr("Untitled Video")
                      /\ Get(videoInfo', "duration") = JNull]_vars
    /\ [](\A c \in 1..Len(calls) : calls[c].svc = "acquisition" => ResolvedInfo(videoInfo))

\* the tool printed JSON null, and acquisition was attempted with the placeholder
C22_Witness ==
    /\ videoInfo = PlaceholderInfo
    /\ \E c \in 1..Len(calls) : calls[c].svc = "acquisition"

\* both jobs have created their temporary directory
BothStarted == \A j \in JobIds : jobs.dir[j] # -1

\* the audio file at the path the acquirer returned to job j was written for job j
OwnAudio(j) == jobs.audioPath[j] => jobs.fs[jobs.dir[j]].audio = j

\* the chunk list the segmenter returned to job j holds only files written for job j
OwnChunks(j) == \A i \in 1..Len(jobs.chunkList[j]) : jobs.chunkList[j][i] = j

\* C23: two jobs of one process, including two that start acquisition in the
\* same millisecond, have distinct temporary directories, and the audio file
\* and the chunk list each job gets back hold only files produced for that job
C23_JobsShareNoFiles ==
    /\ BothStarted => jobs.dir[1] # jobs.dir[2]
    /\ \A j \in JobIds : OwnAudio(j) /\ OwnChunks(j)

\* both jobs started in one millisecond, and job 1 got a chunk list holding a
\* file of job 2
C23_Witness ==
    /\ BothStarted /\ jobs.dir[1] = jobs.dir[2]
    /\ jobs.segmented[1] /\ ~OwnChunks(1)

\* jobs that started in different milliseconds get back only their own files
C23_DistinctMillisIsolate ==
    (BothStarted /\ jobs.dir[1] # jobs.dir[2]) => \A j \in JobIds : OwnAudio(j) /\ OwnChunks(j)

\* the handler awaits the exit of an external process
AwaitsProcess == running \in ExecProcesses

\* C24: every external-process call of a job (metadata lookup, acquisition
\* attempt, re-encoding, segmentation) has a wall-clock timeout, so whenever
\* the handler awaits a process, the runtime kills that process at a deadline
C24_EveryProcessHasDeadline == AwaitsProcess => ExecTimeout(running) > 0

\* the handler awaits the segmenting ffmpeg, which was started with no timeout
C24_Witness == running = "segment" /\ ExecTimeout(running) = 0 /\ responses = <<>>

\* each acquisition attempt has the 120 s deadline
C24_AcquisitionHasDeadline == running = "audio" => ExecTimeout(running) = 120000

\* the non-empty tokens of t split on whitespace: cur is the token being read
RECURSIVE SplitTokens(_, _)
SplitTokens(t, cur) ==
    IF t = <<>> THEN (IF cur = <<>> THEN <<>> ELSE <<cur>>)
    ELSE IF Head(t) = " "
         THEN (IF cur = <<>> THEN <<>> ELSE <<cur>>) \o SplitTokens(Tail(t), <<>>)
         ELSE SplitTokens(Tail(t), Append(cur, Head(t)))

TokenCount(t) == Len(SplitTokens(t, <<>>))

WordCountOnWire(r) == Get(Get(r.body, "data"), "wordCount")

\* every chunk transcribed to empty or whitespace-only text
AllChunksBlank == \A i \in 0..(chunks - 1) : TokenCount(parts[i]) = 0

\* C25: the wordCount of a 200 response is the number of non-empty tokens of
\* the full transcript split on whitespace; it is 0 when every chunk
\* transcribed to empty or whitespace-only text, and for 3 chunks it is the
\* token count of the texts of chunks 0, 1, 2 concatenated in that order.
C25_WordCountIsTokenCount ==
    \A r \in 1..Len(responses) :
        responses[r].status = 200 =>
            /\ WordCountOnWire(responses[r]) = JNum(TokenCount(fullTranscript))
            /\ AllChunksBlank => WordCountOnWire(responses[r]) = JNum(0)
            /\ chunks = 3 =>
                  WordCountOnWire(responses[r])
                      = JNum(TokenCount(parts[0] \o <<" ">> \o parts[1] \o <<" ">> \o parts[2]))

\* a 200 response for three chunks, one of them whitespace only and one of two
\* words
C25_Witness ==
    /\ Len(responses) = 1 /\ responses[1].status = 200 /\ chunks = 3
    /\ parts[0] = <<" ">> /\ parts[1] = <<"b", " ", "c">> /\ parts[2] = <<"a">>
    /\ WordCountOnWire(responses[1]) = JNum(3)

\* a 200 response for chunks that are all blank
C25_BlankWitness ==
    /\ Len(responses) = 1 /\ responses[1].status = 200 /\ chunks = 3
    /\ AllChunksBlank /\ WordCountOnWire(responses[1]) = JNum(0)

NoChunksMessage == "No audio chunks produced"

\* the segmenting ffmpeg exited without error and left no part file
NoChunksProduced == err.msg = NoChunksMessage

TextServices == {"speech-to-text", "text-completion"}

\* the last event pushed is the failed event with the message of err
FailedEventPushed ==
    /\ events # <<>>
    /\ events[Len(events)].stage = "failed"
    /\ Get(events[Len(events)].partial, "error") = JStr(err.msg)

\* C26: a segmentation that leaves zero chunks takes the handler to its catch
\* block with the no-chunks error; the job then makes no speech-to-text and no
\* text-completion call, pushes the failed event when the sink is in use, and
\* answers HTTP 500 with that error.
C26_NoChunksIsHardFailure ==
    /\ [][SegmentExit([exit |-> "ok", n |-> 0]) =>
            (pc'.blk = "catch" /\ err'.msg = NoChunksMessage)]_vars
    /\ [](NoChunksProduced =>
            /\ chunks = 0
            /\ \A c \in 1..Len(calls) : calls[c].svc \notin TextServices
            /\ \A r \in 1..Len(responses) :
                  /\ responses[r].status = 500
                  /\ Get(responses[r].body, "error") = JStr(NoChunksMessage)
            /\ pc = Done =>
                  /\ Len(responses) = 1
                  /\ PushesProgress => FailedEventPushed)

\* the earlier revision answered 500 for zero chunks and pushed no failed event
C26_Witness ==
    /\ rev = "part000" /\ PushesProgress /\ NoChunksProduced
    /\ pc = Done /\ Len(responses) = 1 /\ responses[1].status = 500
    /\ \A j \in 1..Len(events) : events[j].stage # "failed"

\* src/app.js alone: zero chunks end in the failed event and HTTP 500
C26_AppWitness ==
    /\ rev = "app" /\ PushesProgress /\ NoChunksProduced
    /\ pc = Done /\ Len(responses) = 1 /\ FailedEventPushed

\* the list position pos holds the file of the pos-th window of the audio
PositionIsWindow == listing.pos >= 0 => listing.idx = listing.pos

\* C27: for every number of chunks the segmenter leaves, the sorted list of
\* part_NNN names is in temporal order: position i of the list holds the file
\* of the i-th window, from 0 and without gaps.
C27_ListOrderIsTemporal == PositionIsWindow

\* more than 1000 part files: position 101 of the list holds part_1000.wav
C27_Witness == listing.n > 1000 /\ listing.pos = 101 /\ listing.idx = 1000

\* up to 1000 part files the list is in temporal order
C27_ThreeDigitsAreTemporal == listing.n <= 1000 => PositionIsWindow

PlatformTags == {"instagram", "tiktok", "facebook", "youtube", "unknown"}

\* the host patterns of each platform
HostPatterns ==
    [instagram |-> {"instagram.com"},
     tiktok |-> {"tiktok.com"},
     facebook |-> {"facebook.com", "fb.watch", "fb.com"},
     youtube |-> {"youtube.com", "youtu.be"}]

\* the lower-cased pieces of a URL value; none for '', null and undefined
LowerPieces(url) ==
    IF url.k = "txt" THEN { StrLower(url.v[i]) : i \in 1..Len(url.v) } ELSE {}

\* the platforms one of whose host patterns the lower-cased URL contains
PlatformsNamed(url) ==
    { p \in DOMAIN HostPatterns : HostPatterns[p] \cap LowerPieces(url) # {} }

\* C28: applied to a string in any letter case, the empty string, null or
\* undefined, detectPlatformFromUrl does not throw and returns one of the five
\* tags; it returns a tag other than unknown exactly when the lower-cased URL
\* contains a host pattern, and the tag returned is then a platform one of
\* whose host patterns the URL contains.
C28_DetectPlatformIsTotal ==
    (detected.applied /\ detected.url \in UrlStrings) =>
        /\ ~detected.out.thrown
        /\ detected.out.val \in PlatformTags
        /\ detected.out.val # "unknown" <=> PlatformsNamed(detected.url) # {}
        /\ detected.out.val # "unknown" => detected.out.val \in PlatformsNamed(detected.url)

\* a mixed-case URL naming one platform was tagged with it
C28_Witness ==
    /\ detected.applied /\ detected.url = JText(<<"https://", "FB.Watch">>)
    /\ detected.out = Return("facebook")

\* a URL naming two platforms gets the tag of the first in the order
\* instagram, tiktok, facebook, youtube
C28_FirstPatternWins ==
    /\ detected.applied /\ detected.url = JText(<<"youtube.com", "facebook.com">>)
    /\ detected.out = Return("facebook")

\* a truthy value that is no string makes the function throw
C28_NonStringThrows ==
    /\ detected.applied /\ detected.url = JNum(5) /\ detected.out.thrown

\* what the job computes and answers
resultVars == <<mediaVars, textVars, calls, responses, err, running>>

\* the handler is at a postProgress call whose arguments evaluate
AtPush == At("postProgress") /\ ~(Stmt.reads /\ Nullish(analysis))

\* C29: when the sink is not configured no push is ever attempted, and a
\* postProgress call is one step to the next statement; configured or not,
\* the steps of a postProgress call change nothing of what the job computes
\* and answers and end at the same next statement, so the job's result is
\* the one it has with a configured sink.
C29_UnconfiguredSinkIsNoOp ==
    /\ [](~sinkConfigured => (events = <<>> /\ sink = "idle"))
    /\ [][(AtPush /\ (PostProgress \/ SinkStep)) =>
            /\ UNCHANGED resultVars
            /\ pc' = pc \/ pc' = NextPc
            /\ ~sinkConfigured => pc' = NextPc]_vars

\* a job without a sink that was answered 200 after its thirteen postProgress
\* calls
C29_Witness ==
    /\ ~sinkConfigured /\ pc = Done /\ events = <<>>
    /\ Len(responses) = 1 /\ responses[1].status = 200

RECURSIVE JoinByIndex(_, _, _)
\* the texts of the chunks lo..hi by ascending index, a single space between
JoinByIndex(ps, lo, hi) ==
    IF lo > hi THEN <<>>
    ELSE IF lo = hi THEN ps[lo]
    ELSE ps[lo] \o <<" ">> \o JoinByIndex(ps, lo + 1, hi)

\* the transcript of a finished remaining phase, for each order of completion
FullByIndex ==
    Past("transcribeRest") =>
        fullTranscript
            = Trim(earlyTranscript \o <<" ">> \o JoinByIndex(parts, MinTwo(chunks), chunks - 1))

\* C30: whatever the order in which the chunk calls of a phase complete, early
\* is the texts of chunks 0..min(2,n)-1 joined by index with a single space and
\* trimmed, and the full transcript is early, a space and the texts of chunks
\* min(2,n)..n-1 joined by index with a single space, trimmed.
C30_ReassembledByIndex ==
    /\ Past("transcribeEarly") =>
          earlyTranscript = Trim(JoinByIndex(parts, 0, MinTwo(chunks) - 1))
    /\ FullByIndex

\* both remaining chunks resolved, the later chunk first, with different texts
C30_Witness ==
    /\ Past("transcribeRest") /\ chunks >= 4 /\ Len(settleOrder) >= 2
    /\ settleOrder[1] > settleOrder[2]
    /\ parts[settleOrder[1]] # parts[settleOrder[2]]

\* both early chunks resolved, chunk 1 first, and chunk 0 gave the empty text
C30_EarlyWitness ==
    /\ Past("transcribeEarly") /\ settleOrder = <<1, 0>>
    /\ parts[0] = <<>> /\ parts[1] = <<"a">> /\ earlyTranscript = <<"a">>

\* C30 as stated: early is exactly the texts of chunks 0..min(2,n)-1 joined by
\* index with a single space
C30_EarlyIsPlainJoin ==
    /\ Past("transcribeEarly") => earlyTranscript = JoinByIndex(parts, 0, MinTwo(chunks) - 1)
    /\ FullByIndex

\* the positions of calls that request the transcription of chunk i
ChunkCallsOf(i) == { d \in 1..Len(calls) : calls[d].svc = "speech-to-text" /\ calls[d].arg = i }

\* the job was answered 200
Succeeded == \E r \in 1..Len(responses) : responses[r].status = 200

\* C31: on every job answered 200, with n >= 1 chunks, each chunk index
\* 0..n-1 is requested for transcription exactly once and no other index is;
\* the indices below min(2,n) are requested before the classifier call and the
\* others after it; when n <= 2 no transcription is requested after the
\* classifier call and the full transcript equals the early one.
C31_EachChunkTranscribedOnce ==
    Succeeded =>
        /\ chunks >= 1
        /\ \A i \in 0..(chunks - 1) : Cardinality(ChunkCallsOf(i)) = 1
        /\ \A d \in 1..Len(calls) :
              calls[d].svc = "speech-to-text" => calls[d].arg \in 0..(chunks - 1)
        /\ \A c \in 1..Len(calls) :
              ClassifierCallAt(c) =>
                  \A d \in 1..Len(calls) :
                      calls[d].svc = "speech-to-text" =>
                          (d < c <=> calls[d].arg < MinTwo(chunks))
        /\ chunks <= 2 =>
              /\ \A d \in 1..Len(calls) : ~RestChunkCallAt(d)
              /\ fullTranscript = earlyTranscript

\* a job of three chunks answered 200 by the earlier revision
C31_Witness ==
    /\ Succeeded /\ chunks = 3 /\ rev = "part000"
    /\ \A i \in 0..2 : Cardinality(ChunkCallsOf(i)) = 1

\* a job of two chunks answered 200: the remainder phase requested nothing
C31_TwoChunksWitness ==
    /\ Succeeded /\ chunks = 2 /\ fullTranscript = earlyTranscript /\ fullTranscript # <<>>
    /\ Cardinality({d \in 1..Len(calls) : calls[d].svc = "speech-to-text"}) = 2

\* a list of three strategies: the first two exited with an error leaving
\* nothing, the third exited without error leaving a file of 5 KiB
ThirdStrategyScenario ==
    /\ Len(Strategies(Platform)) = 3 /\ Len(attempts) = 3
    /\ \A k \in 1..2 : attempts[k].exit = "error" /\ attempts[k].found = "none"
    /\ attempts[3].exit = "ok" /\ attempts[3].found = "audio.wav" /\ attempts[3].size = 5

\* C32: in a list of three strategies whose first two exit non-zero and whose
\* third completes leaving a 5 KB file, the acquirer returns that file (the one
\* the third strategy wrote), no error is raised by the acquirer, the handler
\* goes on with the statement after the acquisition, and the normalizer takes
\* the returned file.
C32_ThirdStrategyFileReturned ==
    /\ [](ThirdStrategyScenario =>
            /\ wavPath = "audio.wav"
            /\ tempDir[wavPath].by = 3 /\ tempDir[wavPath].size = 5
            /\ attempts[3].result = "won"
            /\ err.msg # ExhaustedMessage(rev)
            /\ pc.blk = "try" => Past("downloadAndExtractAudio"))
    /\ [][(running = "audio" /\ ThirdStrategyScenario') =>
            (pc' = NextPc /\ err' = NoErr /\ running' = "none")]_vars
    /\ [][(ThirdStrategyScenario /\ At("compressIfNeeded") /\ pc' # pc) =>
            (wavSmall' = "audio.wav" /\ pc' = NextPc /\ err' = NoErr)]_vars

\* the third strategy's file has gone through the normalizer
C32_Witness ==
    /\ ThirdStrategyScenario
    /\ Past("compressIfNeeded")
    /\ wavSmall = "audio.wav" /\ wavPath = "audio.wav"
    /\ Len(AcquisitionCalls(calls)) = 3

\* the branch the classification label selects: recipe, tutorial, or story
\* for anything else
BranchOfLabel(l) ==
    IF l = JStr("recipe") THEN "recipe" ELSE IF l = JStr("tutorial") THEN "tutorial" ELSE "story"

\* the document carries the type and category tags of the branch
TaggedAs(doc, branch) ==
    /\ Get(doc, "type") = JStr(branch)
    /\ Get(doc, "category") = JStr(CategoryOf(branch))

\* C33: the synthesizer's branch is decided by the classification label alone:
\* recipe gives a document of type and category recipe, tutorial one of type
\* and category tutorial, anything else the story document of category
\* general; the synthesizer step always returns such a document, and the
\* summary of a 200 response carries the tags of the selected branch.
C33_BranchByLabelOnly ==
    /\ [][(At("generateSpecializedSummary") /\ pc' # pc) =>
            /\ pc' = NextPc
            /\ TaggedAs(summary', BranchOfLabel(Get(analysis, "contentType")))]_vars
    /\ [](\A r \in 1..Len(responses) :
            responses[r].status = 200 =>
                TaggedAs(SummaryOnWire(responses[r]),
                         BranchOfLabel(Get(analysis, "contentType"))))

\* the label was the number 7: no branch ran and the job was answered 500
C33_Witness ==
    /\ Get(analysis, "contentType") = JNum(7)
    /\ summary = JUndef
    /\ Len(responses) = 1 /\ responses[1].status = 500
    /\ FailureEnvelope(responses[1])

\* the label is a string: the branch is the one its lower-cased text names by
\* inclusion, the step returns that branch's document with the branch's tags
C33_StringLabelSelectsBranch ==
    [][(At("generateSpecializedSummary") /\ pc' # pc /\ Get(analysis, "contentType").k = "str") =>
          /\ pc' = NextPc
          /\ TaggedAs(summary', NormType(StrLower(Get(analysis, "contentType").v), "story"))]_vars

\* a label in another case selected the recipe branch
C33_CaseWitness ==
    /\ Get(analysis, "contentType") = JStr("Recipe")
    /\ summary # JUndef /\ TaggedAs(summary, "recipe")

\* the document is tagged recipe or tutorial
StepsTagged(doc) == Get(doc, "type") \in {JStr("recipe"), JStr("tutorial")}

\* a non-empty list of steps whose instructions are non-empty strings
StepsWellFormed(steps) ==
    /\ IsArray(steps) /\ Len(steps.v) >= 1
    /\ \A k \in 1..Len(steps.v) :
          /\ Get(steps.v[k], "instruction").k = "str"
          /\ Get(steps.v[k], "instruction").v # ""

PlaceholderSteps ==
    JArr(<<JObj([step |-> JNum(1), instruction |-> JStr("No clear steps detected.")])>>)

\* the completions that leave no step after filtering
NoStepCompletions ==
    { Completion(Stringify(StepDoc(l))) : l \in EmptiedStepLists }
    \cup { Completion(<<W("Sorry")>>), Completion(Stringify(EmptyObj)),
           Completion(Stringify(EmptyArr)),
           Completion(Stringify(JObj([steps |-> JStr("x")]))) }

\* C34: every recipe or tutorial document the synthesizer or the normalizer
\* returns, after a usable completion, an empty object or a failed call, has a
\* non-empty steps list whose entries all have a non-empty instruction; when
\* the completion leaves no step after filtering the list is exactly the one
\* placeholder step 1 "No clear steps detected.".
C34_StepsNeverEmpty ==
    /\ []((summary # JUndef /\ StepsTagged(summary)) => StepsWellFormed(Get(summary, "steps")))
    /\ [][\A o \in NoStepCompletions :
            (GenerateSpecializedSummary(o) /\ StepsTagged(summary')) =>
                Get(summary', "steps") = PlaceholderSteps]_vars
    /\ [][(At("normalizeForUI") /\ pc' # pc) =>
            Get(summary', "steps") = Get(summary, "steps")]_vars

\* a tutorial whose completion listed only an empty array as a step went
\* through the normalizer with the placeholder step
C34_Witness ==
    /\ Past("normalizeForUI")
    /\ Get(summary, "type") = JStr("tutorial")
    /\ Get(summary, "steps") = PlaceholderSteps
    /\ calls[Len(calls)].svc = "text-completion"
    /\ Get(summary, "title") = JStr("T")

\* a recipe whose entries were an object with an empty instruction, a plain
\* string and null: two steps are kept
C34_KeptWitness ==
    /\ Get(summary, "type") = JStr("recipe")
    /\ IsArray(Get(summary, "steps")) /\ Len(Get(summary, "steps").v) = 2
    /\ Get(Get(summary, "steps").v[1], "instruction") = JStr("[object Object]")
    /\ Get(Get(summary, "steps").v[2], "instruction") = JStr("stir")

\* the completion call failed: the one step of the failed generation
C34_FailedWitness ==
    /\ StepsTagged(summary) /\ Get(summary, "steps") = JArr(<<FailedStep>>)

\* the re-encoding calls of the job
ReencodeCalls == { c \in 1..Len(calls) : calls[c].svc = "transcoding" /\ calls[c].arg = "re-encode" }

\* C35: an asset of at most 24 MiB passes the normalizer unchanged (the same
\* path is returned and no re-encode is started); for a larger asset the
\* re-encode is started exactly once and its output path differs from the input
\* path, whatever file name the acquirer returned, and the asset returned after
\* it is that other path.
C35_ReencodeWritesNewPath ==
    /\ [][(At("compressIfNeeded") /\ running = "none" /\ pc' # pc) =>
            /\ FitsWhisper(tempDir[wavPath].size)
            /\ wavSmall' = wavPath /\ calls' = calls /\ pc' = NextPc]_vars
    /\ [][(At("compressIfNeeded") /\ running = "none" /\ running' = "compress") =>
            /\ ~FitsWhisper(tempDir[wavPath].size)
            /\ CompressedName(wavPath) # wavPath]_vars
    /\ [](Cardinality(ReencodeCalls) <= 1)
    /\ []((Past("compressIfNeeded") /\ ReencodeCalls # {}) => wavSmall # wavPath)

\* the re-encode runs on the partial download the acquirer returned: its
\* output path is its input path
C35_Witness ==
    /\ running = "compress"
    /\ wavPath = "audio.m4a.part"
    /\ ~FitsWhisper(tempDir[wavPath].size)
    /\ CompressedName(wavPath) = wavPath
    /\ Cardinality(ReencodeCalls) = 1

\* C35 for an asset whose name ends in .wav
C35_WavReencodeWritesNewPath ==
    /\ [][(At("compressIfNeeded") /\ running = "none" /\ pc' # pc) =>
            /\ FitsWhisper(tempDir[wavPath].size)
            /\ wavSmall' = wavPath /\ calls' = calls /\ pc' = NextPc]_vars
    /\ [][(At("compressIfNeeded") /\ running = "none" /\ running' = "compress"
           /\ wavPath = "audio.wav") =>
            /\ ~FitsWhisper(tempDir[wavPath].size)
            /\ CompressedName(wavPath) = "audio_compressed.wav"]_vars
    /\ [](Cardinality(ReencodeCalls) <= 1)
    /\ []((Past("compressIfNeeded") /\ ReencodeCalls # {}) =>
            (wavSmall = "audio_compressed.wav" /\ wavPath = "audio.wav"))

\* an asset of exactly 24 MiB passed through, and a larger wav file re-encoded
C35_PassWitness ==
    /\ Past("compressIfNeeded") /\ wavSmall = wavPath /\ tempDir[wavPath].size = 24 * 1024
    /\ ReencodeCalls = {}
C35_ReencodedWitness ==
    /\ Past("compressIfNeeded") /\ wavSmall = "audio_compressed.wav" /\ wavPath = "audio.wav"

\* the profiles of the metadata calls of the job
InfoCalls == { calls[c].arg : c \in { d \in 1..Len(calls) : calls[d].svc = "video-info" } }

\* the strategies of the acquisition calls of the job
StrategiesTried == { calls[c].arg : c \in { d \in 1..Len(calls) : calls[d].svc = "acquisition" } }

\* C36: when the platform of the URL resolves to unknown, the metadata call
\* carries no platform-specific client hint (no extractor arguments of a
\* platform) and the acquisition list is the one generic strategy: the only
\* strategy ever started is the generic one.
C36_UnknownIsRoutedGeneric ==
    Platform = "unknown" =>
        /\ \A p \in InfoCalls : p.extractorArgs = "none"
        /\ Strategies(Platform) = <<Generic>>
        /\ StrategiesTried \subseteq {Generic}
        /\ Len(AcquisitionCalls(calls)) <= 1

\* a URL of no known platform: the metadata call carried the youtube client
\* hint, and the generic strategy was started
C36_Witness ==
    /\ Platform = "unknown"
    /\ \E p \in InfoCalls : p.extractorArgs = "youtube:player_client=android,web"
    /\ StrategiesTried = {Generic}

\* C36, the acquisition half: an unknown platform is acquired by the generic
\* strategy alone
C36_UnknownAcquiredGeneric ==
    Platform = "unknown" =>
        /\ Strategies(Platform) = <<Generic>>
        /\ StrategiesTried \subseteq {Generic}
        /\ Len(AcquisitionCalls(calls)) <= 1

\* the acquirer returned a file: its last strategy is the winning one
AcquirerReturned == Len(attempts) >= 1 /\ attempts[Len(attempts)].result = "won"

\* C37: the file the acquirer returns was written by the winning strategy,
\* never by an earlier strategy that failed or timed out.
C37_ReturnedFileIsWinners ==
    AcquirerReturned =>
        /\ wavPath \in AudioFiles(tempDir)
        /\ tempDir[wavPath].by = Len(attempts)

\* the second strategy won and the file returned is the partial download the
\* first, failed strategy left
C37_Witness ==
    /\ AcquirerReturned /\ Len(attempts) = 2
    /\ attempts[1].exit = "error" /\ attempts[1].result = "failed"
    /\ wavPath = "audio.m4a.part" /\ tempDir[wavPath].by = 1
    /\ Past("downloadAndExtractAudio")

\* C37 when no failed strategy left a file: the file returned is the winner's
C37_CleanDirectoryReturnsWinners ==
    (AcquirerReturned /\ \A k \in 1..(Len(attempts) - 1) : attempts[k].found = "none") =>
        /\ wavPath \in AudioFiles(tempDir)
        /\ tempDir[wavPath].by = Len(attempts)

\* the classifier's completion call fails: network error, non-2xx status,
\* response body that is no JSON
ClassifierFailures == { NetErr, Http(FALSE, <<>>), MalformedBody }

\* C38: when the classifier's text-completion call is made and fails (network
\* error, non-2xx status, unparseable response body), analyzeContentType
\* returns contentType story, nothing is raised and the handler goes on with
\* its next statement towards the remainder phase and structuring.
C38_ClassifierFailureIsStory ==
    [][\A o \in ClassifierFailures :
          (AnalyzeContentType(o) /\ calls' # calls) =>
              /\ Get(analysis', "contentType") = JStr("story")
              /\ pc' = NextPc /\ err' = err]_vars

\* the earlier revision: the classifier's call failed on the network and the
\* job was answered 500 without a classification
C38_Witness ==
    /\ rev = "part000"
    /\ Len(calls) >= 1 /\ ClassifierCallAt(Len(calls))
    /\ analysis = JUndef /\ err.msg = "fetch failed"
    /\ Len(responses) = 1 /\ responses[1].status = 500

\* src/app.js: the classifier's call failed, the job was classified story and
\* answered 200
C38_AppWitness ==
    /\ rev = "app"
    /\ Get(analysis, "reason") = JStr("error-fallback")
    /\ Get(analysis, "contentType") = JStr("story")
    /\ Len(responses) = 1 /\ responses[1].status = 200

\* the platform of the URLs submitted, by their host
PlatformOfUrl ==
    IF req.videoUrl = InstagramReel THEN "instagram"
    ELSE IF req.videoUrl = YoutubeShort THEN "youtube"
    ELSE "unknown"

\* C39: a non-empty platform field lets the request in whatever its value,
\* and from then on the job is decided by the URL: the metadata profile and
\* the strategies started are those of the URL's platform, in list order, and
\* the placeholder title names the URL's platform; no step of the job reads
\* the field, so requests that differ only in it run the same job.
C39_PlatformFieldHasNoEffect ==
    /\ [][(pc.blk = "start" /\ Truthy(req.summaryId) /\ Truthy(req.videoUrl)
           /\ Truthy(req.platform)) => (pc'.blk = "try" /\ responses' = responses)]_vars
    /\ [](InfoCalls \subseteq {InfoProfile(PlatformOfUrl)})
    /\ [](/\ Len(AcquisitionCalls(calls)) <= Len(Strategies(PlatformOfUrl))
          /\ \A k \in 1..Len(AcquisitionCalls(calls)) :
                AcquisitionCalls(calls)[k] = Strategies(PlatformOfUrl)[k])
    /\ [](videoInfo # JUndef =>
            Get(videoInfo, "title") \in
                {JStr(PlatformOfUrl \o " video"), JStr("Untitled Video")})

\* an instagram URL submitted as platform youtube: the job used instagram's
\* profile and went through instagram's three strategies, and was answered 200
C39_Witness ==
    /\ req.videoUrl = InstagramReel /\ req.platform = JStr("youtube")
    /\ InfoCalls = {InfoProfile("instagram")}
    /\ Len(AcquisitionCalls(calls)) = 3
    /\ Len(responses) = 1 /\ responses[1].status = 200

\* the JS string x is the text t
TextIs(x, t) ==
    /\ x.k \in {"str", "txt"}
    /\ IF x.k = "txt" THEN x.v = t ELSE (x.v = "" /\ t = <<>>)

StoryTagged(doc) == Get(doc, "type") = JStr("story")
VerbatimOf(doc) == Get(Get(doc, "transcript"), "verbatim")
ReadableIn(doc) == Get(Get(doc, "transcript"), "readable")

\* verbatim is the full transcript; readable is non-empty when verbatim is
StoryTranscriptSound(doc, full) ==
    /\ TextIs(VerbatimOf(doc), full)
    /\ full # <<>> => Truthy(ReadableIn(doc))

\* C40: in every story document, of the synthesizer, of the normalizer and of
\* the 200 response, transcript.verbatim is the full transcript and
\* transcript.readable is non-empty when verbatim is; when the completion call
\* fails, its output is no JSON, or the parsed value has no readable text,
\* readable is verbatim.
C40_StoryKeepsTranscript ==
    /\ []((summary # JUndef /\ StoryTagged(summary)) =>
            StoryTranscriptSound(summary, fullTranscript))
    /\ [](\A r \in 1..Len(responses) :
            (responses[r].status = 200 /\ StoryTagged(SummaryOnWire(responses[r]))) =>
                StoryTranscriptSound(SummaryOnWire(responses[r]), fullTranscript))
    /\ [][\A o \in ReadableMissing :
            (GenerateSpecializedSummary(o) /\ StoryTagged(summary')) =>
                ReadableIn(summary') = VerbatimOf(summary')]_vars

\* a story of a two-chunk transcript whose completion gave no readable text
\* was answered 200 with readable = verbatim = "a a"
C40_Witness ==
    /\ Len(responses) = 1 /\ responses[1].status = 200
    /\ StoryTagged(SummaryOnWire(responses[1]))
    /\ fullTranscript = <<"a", " ", "a">>
    /\ ReadableIn(SummaryOnWire(responses[1])) = VerbatimOf(SummaryOnWire(responses[1]))
    /\ TextIs(VerbatimOf(SummaryOnWire(responses[1])), fullTranscript)

\* the completion gave a readable text, which is kept
C40_GivenWitness ==
    /\ summary # JUndef /\ StoryTagged(summary)
    /\ ReadableIn(summary) = JText(<<"A", ".">>)
    /\ VerbatimOf(summary) = JText(fullTranscript)

\* a blank transcript: both texts of the story are empty
C40_BlankWitness ==
    /\ summary # JUndef /\ StoryTagged(summary) /\ fullTranscript = <<>>
    /\ ~Truthy(ReadableIn(summary))

====
